---- MODULE Spec2Model ----
(***************************************************************************)
(* The POST /fill request pipeline of the PDF filler service, in the       *)
(* variants the repository holds: each deployment runs one variant, and    *)
(* the Node.js event loop interleaves the handlers of concurrent requests  *)
(* at their await points.  One action is one segment of a handler between  *)
(* two awaits.                                                             *)
(***************************************************************************)
EXTENDS Integers, Sequences, FiniteSets, TLC

VARIABLES
    variant,      \* which server file is deployed
    env,          \* process.env as the handlers read it
    now,          \* Date.now(), in milliseconds
    pc,           \* per request: where its handler is suspended
    fillpc,       \* per request: where its fillPdf promise is suspended
    body,         \* per request: req.body
    hdr,          \* per request: req.headers.authorization
    loc,          \* per request: the handler's local variables and counters
    resp,         \* per request: the responses written to res, in order
    fs,           \* the temp directory TMP: path -> contents
    drive,        \* the files created on Drive
    lastFont,     \* global.LAST_EMBEDDED_FONT (part_011)
    form          \* one call of a field-filling function: its input, its result

vars == <<variant, env, now, pc, fillpc, body, hdr, loc, resp, fs, drive,
          lastFont, form>>

(* ------------------------------ bounds -------------------------------- *)

MaxClock == 1

Requests == {"r1", "r2"}

Templates == {"T1", "T2"}

OutputNames == {"", "a.pdf"}

(* ----------------------------- variants ------------------------------- *)

CjsFamily == {"index_cjs", "part_000", "part_005", "part_011", "refresh_js"}

JsFamily == {"index_js_pdflib", "index_js_pdftk", "part_006"}

Variants == CjsFamily \cup JsFamily \cup {"part_003"}

(* A variant with no temp files: part_003 keeps the template and the filled
   PDF in memory (Uint8Array / Buffer). *)
UsesTempFiles(v) == v # "part_003"

(* --------------------------- file contents ---------------------------- *)

Missing == [kind |-> "missing", tpl |-> "", by |-> "", flat |-> FALSE]

(* a file a write stream has truncated and not yet finished *)
Partial == [kind |-> "partial", tpl |-> "", by |-> "", flat |-> FALSE]

(* the bytes of Drive file t *)
TemplateBytes(t) == [kind |-> "template", tpl |-> t, by |-> "", flat |-> FALSE]

(* the PDF request r's fillPdf saved from template t *)
FilledPdf(r, t, flat) == [kind |-> "pdf", tpl |-> t, by |-> r, flat |-> flat]

(* the FDF request r's generateFDF produced *)
FdfOf(r) == [kind |-> "fdf", tpl |-> "", by |-> r, flat |-> FALSE]

NoBytes == [kind |-> "none", tpl |-> "", by |-> "", flat |-> FALSE]

(* ------------------------------- paths -------------------------------- *)

EndsWith(s, suffix) ==
    /\ Len(s) >= Len(suffix)
    /\ SubSeq(s, Len(s) - Len(suffix) + 1, Len(s)) = suffix

StartsWith(s, prefix) ==
    /\ Len(s) >= Len(prefix)
    /\ SubSeq(s, 1, Len(prefix)) = prefix

templatePath(templateFileId) == "template_" \o templateFileId \o ".pdf"

outputPath(ms) == "output_" \o ToString(ms) \o ".pdf"

fdfPath(ms) == "data_" \o ToString(ms) \o ".fdf"

(* index.cjs and its siblings: the output file is named after outputName,
   or after the clock when no outputName is given *)
outName(outputName, ms) ==
    LET base == IF outputName # "" THEN outputName
                ELSE "filled_" \o ToString(ms)
    IN  IF EndsWith(base, ".pdf") THEN base ELSE base \o ".pdf"

Clock == 0..MaxClock

Paths ==
    {templatePath(t) : t \in Templates}
    \cup {outputPath(ms) : ms \in Clock}
    \cup {fdfPath(ms) : ms \in Clock}
    \cup {outName(n, ms) : n \in OutputNames, ms \in Clock}

(* ------------------------ per-variant behaviour ----------------------- *)

(* `if (!templateFileId || !fields)`: the variants that also demand fields *)
RequiresFields(v) == v \in JsFamily

(* getDriveClient throws when no credentials are configured (index.js,
   part_006); in the index.cjs family it logs and builds a client anyway *)
DriveClientThrows(v) == v \in JsFamily

(* one more nested try/catch around the save in every variant *)
SaveAttempts_OneMore(v) ==
    CASE v = "index_cjs" -> 4
      [] v \in {"part_000", "part_005", "part_011", "refresh_js"} -> 3
      [] OTHER -> 2

(* how many times fillPdf calls pdfDoc.save() before it gives up *)
SaveAttempts(v) ==
    CASE v = "index_cjs" -> 3
      [] v \in {"part_000", "part_005", "part_011", "refresh_js"} -> 2
      [] OTHER -> 1

(* form.flatten() before the save (part_005); `pdftk ... flatten` *)
Flattens(v) == v \in {"part_005", "index_js_pdftk"}

(* Promise.race([fillPromise, timeoutPromise]) *)
HasFillTimeout(v) == v \in {"index_js_pdflib", "part_006"}

(* the handler unlinks its temp files after the upload *)
CleansUp(v) == v \in JsFamily

(* the unlinks sit in their own try/catch and behind existsSync *)
CleanupGuarded(v) == v \in {"index_js_pdflib", "index_js_pdftk"}

(* every variant answering with the body of index.cjs *)
SuccessKeys_AllFour(v) == {"ok", "filledCount", "driveFile", "webViewLink"}

(* the keys of the JSON body of a successful response *)
SuccessKeys(v) ==
    CASE v \in {"index_js_pdflib", "part_006"} -> {"ok", "driveFile"}
      [] v = "index_js_pdftk" -> {"ok", "driveFile", "method"}
      [] v = "part_011" -> {"ok", "filledCount", "driveFile"}
      [] v = "part_003" -> {"ok", "filledCount", "file", "driveFile"}
      [] OTHER -> {"ok", "filledCount", "driveFile", "webViewLink"}

(* the keys of the JSON body the handler's catch block sends *)
ErrorKeys(v) == IF v = "part_003" THEN {"ok", "error"} ELSE {"error", "detail"}

(* the keys of the JSON body of a 400 *)
BadRequestKeys(v) == IF v = "part_003" THEN {"ok", "error"} ELSE {"error"}

(* ------------------------------ requests ------------------------------ *)

Folders == {"", "F1"}

NoOutput == [name |-> "", folderId |-> ""]

(* req.body of the variants that know only the legacy format *)
LegacyBodies ==
    [templateFileId : {""} \cup Templates, fields : {"absent", "given"},
     outputName : OutputNames, folderId : {""},
     templateId : {""}, hasOutput : {FALSE}, output : {NoOutput}]

(* req.body of part_003: the legacy format, the new format, or neither *)
Part003Bodies ==
    [templateFileId : {"", "T1"}, fields : {"given"},
     outputName : OutputNames, folderId : Folders,
     templateId : {""}, hasOutput : {FALSE}, output : {NoOutput}]
    \cup
    [templateFileId : {""}, fields : {"given"},
     outputName : {""}, folderId : {""},
     templateId : {"", "T1"}, hasOutput : BOOLEAN,
     output : [name : OutputNames, folderId : Folders]]

Bodies(v) == IF v = "part_003" THEN Part003Bodies ELSE LegacyBodies

(* req.headers.authorization; "" is a request without the header *)
AuthHeaders(v) ==
    IF v = "part_003"
    THEN {"", "bearer secret", "Bearer wrong", "Bearer secret ", "Bearer secret"}
    ELSE {""}

(* process.env of a deployment of variant v; a setting the variant never
   reads is held at one value *)
Envs(v) ==
    [credsOk : IF DriveClientThrows(v) THEN BOOLEAN ELSE {TRUE},
     apiToken : IF v = "part_003" THEN {"", "secret"} ELSE {""},
     defaultFolder : IF v = "part_003" THEN {"", "F0"} ELSE {""},
     pdftk : IF v = "index_js_pdftk" THEN BOOLEAN ELSE {TRUE},
     fontOnDisk : IF v = "part_011" THEN BOOLEAN ELSE {TRUE}]

(* no field-filling call is being followed *)
NoForm == [impl |-> "none", stage |-> "none"]

NoBody ==
    [templateFileId |-> "", fields |-> "absent", outputName |-> "",
     folderId |-> "", templateId |-> "", hasOutput |-> FALSE,
     output |-> NoOutput]

InitLoc ==
    [templateId |-> "", folderId |-> "", templatePath |-> "",
     outputPath |-> "", fdfPath |-> "", name |-> "",
     downloaded |-> NoBytes, fontSrc |-> NoBytes, src |-> NoBytes,
     produced |-> NoBytes, uploaded |-> NoBytes,
     gets |-> 0, saves |-> 0, creates |-> 0, wrote |-> FALSE]

Init ==
    /\ variant \in Variants
    /\ env \in Envs(variant)
    /\ now = 0
    /\ pc = [r \in Requests |-> "idle"]
    /\ fillpc = [r \in Requests |-> "idle"]
    /\ body = [r \in Requests |-> NoBody]
    /\ hdr = [r \in Requests |-> ""]
    /\ loc = [r \in Requests |-> InitLoc]
    /\ resp = [r \in Requests |-> <<>>]
    /\ fs = [p \in Paths |-> Missing]
    /\ drive = {}
    /\ lastFont = "undefined"
    /\ form = NoForm

(* ----------------------------- responses ------------------------------ *)

Response(status, ok, keys) == [status |-> status, ok |-> ok, keys |-> keys]

(* res.status(status).json(...): one more response on r's connection *)
Send(r, status, ok, keys) ==
    resp' = [resp EXCEPT ![r] = Append(@, Response(status, ok, keys))]

(* the handler's catch block: res.status(500).json({ error, detail }) *)
Catch(r) ==
    /\ Send(r, 500, FALSE, ErrorKeys(variant))
    /\ pc' = [pc EXCEPT ![r] = "done"]

(* An exception that escapes the async handler rejects its promise.  What
   the client then sees depends on the Express major version, which the
   repository does not pin: Express 4 leaves the request unanswered,
   Express 5 hands the error to its default handler, which answers 500 with
   an HTML page. *)
UnhandledRejection(r) ==
    /\ pc' = [pc EXCEPT ![r] = "rejected"]
    /\ \/ UNCHANGED resp
       \/ Send(r, 500, FALSE, {})

(* --------------------- authentication (part_003) ---------------------- *)

(* the middleware without `token !== expectedToken` *)
authenticateBearerToken_NoCompare(authHeader, expectedToken) ==
    IF expectedToken = "" THEN "config_error"
    ELSE IF authHeader = "" \/ ~StartsWith(authHeader, "Bearer ") THEN "no_bearer"
    ELSE "next"

authenticateBearerToken(authHeader, expectedToken) ==
    IF expectedToken = "" THEN "config_error"
    ELSE IF authHeader = "" \/ ~StartsWith(authHeader, "Bearer ") THEN "no_bearer"
    ELSE IF SubSeq(authHeader, 8, Len(authHeader)) # expectedToken THEN "bad_token"
    ELSE "next"

(* --------------------------- input validation ------------------------- *)

(* the handler without its `if (!templateFileId)` *)
MissingInputCjs_NoTest(b) == FALSE

(* index.cjs family: `if (!templateFileId)` *)
MissingInputCjs(b) == b.templateFileId = ""

(* the test without `|| !fields` *)
MissingInputJs_NoFieldsTest(b) == b.templateFileId = ""

(* index.js family: `if (!templateFileId || !fields)` *)
MissingInputJs(b) == b.templateFileId = "" \/ b.fields = "absent"

(* part_003: which of the two body formats the request is read as *)
Format003(b) ==
    IF b.templateId # "" /\ b.hasOutput THEN "new"
    ELSE IF b.templateFileId # "" THEN "legacy"
    ELSE "none"

(* the new-format branch reading the legacy keys for name and folder *)
Parsed003_LegacyKeys(b) ==
    [templateId |-> IF b.templateId # "" /\ b.hasOutput THEN b.templateId
                    ELSE b.templateFileId,
     outputName |-> b.outputName, folderId |-> b.folderId]

(* part_003: templateId, outputName, folderId as the chosen format gives them *)
Parsed003(b) ==
    IF Format003(b) = "new"
    THEN [templateId |-> b.templateId, outputName |-> b.output.name,
          folderId |-> b.output.folderId]
    ELSE [templateId |-> b.templateFileId, outputName |-> b.outputName,
          folderId |-> b.folderId]

(* part_003: `folderId = process.env.DEFAULT_OUTPUT_FOLDER_ID || ''` when the
   request names no folder *)
Folder003(b) ==
    IF Parsed003(b).folderId # "" THEN Parsed003(b).folderId
    ELSE env.defaultFolder

MissingInput003(b) ==
    \/ Format003(b) = "none"
    \/ Parsed003(b).templateId = ""
    \/ Parsed003(b).outputName = ""
    \/ Folder003(b) = ""

(* ------------------------- the handler, by segment -------------------- *)

(* index.cjs family, up to `await drive.files.get` in downloadDriveFile *)
ReceiveCjs(r, b) ==
    IF MissingInputCjs(b)
    THEN /\ Send(r, 400, FALSE, BadRequestKeys(variant))
         /\ pc' = [pc EXCEPT ![r] = "done"]
         /\ UNCHANGED loc
    ELSE /\ loc' = [loc EXCEPT ![r].templateId = b.templateFileId,
                               ![r].templatePath = templatePath(b.templateFileId),
                               ![r].gets = 1]
         /\ pc' = [pc EXCEPT ![r] = "get"]
         /\ UNCHANGED resp

(* index.js family after validation: getDriveClient(), the two temp paths,
   then `await drive.files.get`; all of it before the try block opens *)
StartJs(r, b) ==
    IF ~env.credsOk
    THEN /\ UnhandledRejection(r)
         /\ UNCHANGED loc
    ELSE /\ loc' = [loc EXCEPT ![r].templateId = b.templateFileId,
                               ![r].templatePath = templatePath(b.templateFileId),
                               ![r].outputPath = outputPath(now),
                               ![r].gets = 1]
         /\ pc' = [pc EXCEPT ![r] = "get"]
         /\ UNCHANGED resp

ReceiveJs(r, b) ==
    IF MissingInputJs(b)
    THEN /\ Send(r, 400, FALSE, BadRequestKeys(variant))
         /\ pc' = [pc EXCEPT ![r] = "done"]
         /\ UNCHANGED loc
    ELSE IF variant = "index_js_pdftk"
    THEN /\ pc' = [pc EXCEPT ![r] = "pdftk"]
         /\ UNCHANGED <<loc, resp>>
    ELSE StartJs(r, b)

(* part_003: the middleware, the format selection, the 400s, then
   `await drive.files.get` *)
Receive003(r, b, h) ==
    LET auth == authenticateBearerToken(h, env.apiToken) IN
    IF auth # "next"
    THEN /\ Send(r, IF auth = "config_error" THEN 500 ELSE 401, FALSE, {"ok", "error"})
         /\ pc' = [pc EXCEPT ![r] = "done"]
         /\ UNCHANGED loc
    ELSE IF MissingInput003(b)
    THEN /\ Send(r, 400, FALSE, BadRequestKeys(variant))
         /\ pc' = [pc EXCEPT ![r] = "done"]
         /\ UNCHANGED loc
    ELSE /\ loc' = [loc EXCEPT ![r].templateId = Parsed003(b).templateId,
                               ![r].name = Parsed003(b).outputName,
                               ![r].folderId = Folder003(b),
                               ![r].gets = 1]
         /\ pc' = [pc EXCEPT ![r] = "get"]
         /\ UNCHANGED resp

(* A POST /fill request arrives: the handler runs to its first await. *)
Receive(r) ==
    /\ pc[r] = "idle"
    /\ \E b \in Bodies(variant), h \in AuthHeaders(variant) :
          /\ body' = [body EXCEPT ![r] = b]
          /\ hdr' = [hdr EXCEPT ![r] = h]
          /\ CASE variant = "part_003" -> Receive003(r, b, h)
               [] variant \in JsFamily -> ReceiveJs(r, b)
               [] OTHER -> ReceiveCjs(r, b)
    /\ UNCHANGED <<form, variant, env, now, fillpc, fs, drive, lastFont>>

(* index.js (PDFtk): `await checkPDFtk()` returns *)
CheckPDFtk(r) ==
    /\ pc[r] = "pdftk"
    /\ IF ~env.pdftk
       THEN /\ Send(r, 500, FALSE, {"error", "detail"})
            /\ pc' = [pc EXCEPT ![r] = "done"]
            /\ UNCHANGED loc
       ELSE StartJs(r, body[r])
    /\ UNCHANGED <<form, variant, env, now, fillpc, body, hdr, fs, drive, lastFont>>

(* --------------------------- the fill promise ------------------------- *)

(* fillPdf rejects: if the handler still awaits it, its catch block runs;
   after a timeout response nobody listens any more *)
FillRejected(r) ==
    /\ fillpc' = [fillpc EXCEPT ![r] = "failed"]
    /\ IF pc[r] = "race" THEN Catch(r) ELSE UNCHANGED <<pc, resp>>

(* the Drive name of the upload: index.js computes finalName here, the
   index.cjs family reuses outName, part_003 the validated outputName *)
finalName(r) ==
    IF variant \in JsFamily
    THEN (IF body[r].outputName # "" THEN body[r].outputName
          ELSE "filled_" \o ToString(now) \o ".pdf")
    ELSE loc[r].name

(* fillPdf resolved and the handler still awaits it: uploadToDrive runs to
   `await drive.files.create` (the folder check of index.js and part_003 is
   one more Drive call on the way, folded into the same wait) *)
StartUpload(r, l) ==
    /\ loc' = [loc EXCEPT ![r] = [l EXCEPT !.name = finalName(r), !.creates = 1]]
    /\ pc' = [pc EXCEPT ![r] = "create"]
    /\ UNCHANGED resp

(* fillPdf called without `await`: the handler goes straight on to the
   upload *)
CallFillPdf_NoAwait(r, l, files) ==
    /\ loc' = [loc EXCEPT ![r] = [l EXCEPT !.src = files[l.templatePath],
                                           !.creates = 1]]
    /\ fillpc' = [fillpc EXCEPT ![r] = "load"]
    /\ pc' = [pc EXCEPT ![r] = "create"]
    /\ UNCHANGED resp

(* the handler calls fillPdf(srcPath, ...): its synchronous head is
   fs.readFileSync(srcPath) *)
CallFillPdf(r, l, files) ==
    IF files[l.templatePath].kind = "missing"
    THEN /\ Catch(r)
         /\ loc' = [loc EXCEPT ![r] = l]
         /\ UNCHANGED fillpc
    ELSE /\ loc' = [loc EXCEPT ![r] = [l EXCEPT !.src = files[l.templatePath]]]
         /\ fillpc' = [fillpc EXCEPT ![r] = "load"]
         /\ pc' = [pc EXCEPT ![r] = "race"]
         /\ UNCHANGED resp

(* `await drive.files.get({ fileId, alt: 'media' })` returns *)
GotTemplate(r) ==
    /\ pc[r] = "get"
    /\ \/ /\ Catch(r)
          /\ UNCHANGED <<loc, fillpc, fs>>
       \/ /\ variant = "part_003"
          /\ loc' = [loc EXCEPT ![r].downloaded = TemplateBytes(loc[r].templateId),
                                ![r].src = TemplateBytes(loc[r].templateId)]
          /\ fillpc' = [fillpc EXCEPT ![r] = "load"]
          /\ pc' = [pc EXCEPT ![r] = "race"]
          /\ UNCHANGED <<resp, fs>>
       \/ /\ variant # "part_003"
          /\ fs' = [fs EXCEPT ![loc[r].templatePath] = Partial]
          /\ pc' = [pc EXCEPT ![r] = "pipe"]
          /\ UNCHANGED <<loc, fillpc, resp>>
    /\ UNCHANGED <<form, variant, env, now, body, hdr, drive, lastFont>>

(* another request's write stream is open on the same template path *)
SharedPipe(r) ==
    \E o \in Requests \ {r} :
        pc[o] = "pipe" /\ loc[o].templatePath = loc[r].templatePath

(* the write stream of the template finishes (or fails), and the handler
   runs on to its next await *)
Piped(r) ==
    /\ pc[r] = "pipe"
    /\ \/ /\ Catch(r)
          /\ UNCHANGED <<loc, fillpc, fs>>
       \/ \E c \in IF SharedPipe(r)
                   THEN {Partial, TemplateBytes(loc[r].templateId)}
                   ELSE {TemplateBytes(loc[r].templateId)} :
            LET files == [fs EXCEPT ![loc[r].templatePath] = c]
                l == [loc[r] EXCEPT !.downloaded = TemplateBytes(loc[r].templateId)]
            IN  CASE variant \in CjsFamily ->
                       /\ fs' = files
                       /\ CallFillPdf(r,
                            [l EXCEPT !.outputPath = outName(body[r].outputName, now),
                                      !.name = outName(body[r].outputName, now)],
                            files)
                  [] variant = "index_js_pdftk" ->
                       /\ fs' = [files EXCEPT ![fdfPath(now)] = FdfOf(r)]
                       /\ loc' = [loc EXCEPT ![r] = [l EXCEPT !.fdfPath = fdfPath(now)]]
                       /\ fillpc' = [fillpc EXCEPT ![r] = "exec"]
                       /\ pc' = [pc EXCEPT ![r] = "race"]
                       /\ UNCHANGED resp
                  [] OTHER ->
                       /\ fs' = files
                       /\ loc' = [loc EXCEPT ![r] = [l EXCEPT !.fontSrc = c]]
                       /\ pc' = [pc EXCEPT ![r] = "font"]
                       /\ UNCHANGED <<fillpc, resp>>
    /\ UNCHANGED <<form, variant, env, now, body, hdr, drive, lastFont>>

(* index.js (pdf-lib), part_006: PDFDocument.load and loadJapaneseFont have
   settled; the handler calls fillPdf and awaits the race *)
LoadFont(r) ==
    /\ pc[r] = "font"
    /\ \/ /\ loc[r].fontSrc.kind # "template"
          /\ Catch(r)
          /\ UNCHANGED <<loc, fillpc>>
       \/ /\ loc[r].fontSrc.kind = "template"
          /\ \E fontFails \in BOOLEAN :
                IF fontFails /\ variant = "index_js_pdflib"
                THEN Catch(r) /\ UNCHANGED <<loc, fillpc>>
                ELSE CallFillPdf(r, loc[r], fs)
    /\ UNCHANGED <<form, variant, env, now, body, hdr, fs, drive, lastFont>>

(* fillPdf: PDFDocument.load(bytes) has settled.  A truncated file does not
   parse; the field loop of index.js and part_006 may run into its own
   MAX_PROCESSING_TIME; part_011 resets global.LAST_EMBEDDED_FONT before it
   tries the font candidates. *)
FillLoad(r) ==
    /\ fillpc[r] = "load"
    /\ \/ /\ loc[r].src.kind # "template" \/ HasFillTimeout(variant)
          /\ FillRejected(r)
          /\ UNCHANGED lastFont
       \/ /\ loc[r].src.kind = "template"
          /\ fillpc' = [fillpc EXCEPT ![r] = IF variant = "part_011" THEN "embed"
                                             ELSE "save"]
          /\ lastFont' = IF variant = "part_011" THEN "" ELSE lastFont
          /\ UNCHANGED <<pc, resp>>
    /\ UNCHANGED <<form, variant, env, now, body, hdr, loc, fs, drive>>

(* the first font candidate of part_011 when FONT_TTF_PATH is not set *)
FontCandidate == "fonts/NotoSansCJKjp-Regular.otf"

(* EmbedFont without `if (!exists) continue` *)
EmbedFont_NoExistsCheck(r) ==
    /\ fillpc[r] = "embed"
    /\ lastFont' = FontCandidate
    /\ fillpc' = [fillpc EXCEPT ![r] = "save"]
    /\ UNCHANGED <<form, variant, env, now, pc, body, hdr, loc, resp, fs, drive>>

(* part_011: the loop over the font candidates is over: the candidate that
   exists on disk was embedded (`global.LAST_EMBEDDED_FONT = p`), or none
   was *)
EmbedFont(r) ==
    /\ fillpc[r] = "embed"
    /\ \/ /\ env.fontOnDisk
          /\ lastFont' = FontCandidate
       \/ UNCHANGED lastFont
    /\ fillpc' = [fillpc EXCEPT ![r] = "save"]
    /\ UNCHANGED <<form, variant, env, now, pc, body, hdr, loc, resp, fs, drive>>

(* the attempt that has just failed was the last one fillPdf makes *)
LastAttempt(v, failed) == failed >= SaveAttempts(v)

(* fillPdf: one `await pdfDoc.save(...)` has settled.  On success the bytes
   are written to outPath and fillPdf resolves; on failure the next catch
   block tries again while the variant has attempts left. *)
FillSave(r) ==
    /\ fillpc[r] = "save"
    /\ \/ LET pdf == FilledPdf(r, loc[r].src.tpl, Flattens(variant))
              l == [loc[r] EXCEPT !.saves = @ + 1, !.produced = pdf,
                                  !.wrote = UsesTempFiles(variant)]
          IN  /\ fs' = IF UsesTempFiles(variant)
                       THEN [fs EXCEPT ![loc[r].outputPath] = pdf]
                       ELSE fs
              /\ fillpc' = [fillpc EXCEPT ![r] = "done"]
              /\ IF pc[r] = "race"
                 THEN StartUpload(r, l)
                 ELSE /\ loc' = [loc EXCEPT ![r] = l]
                      /\ UNCHANGED <<pc, resp>>
       \/ /\ loc' = [loc EXCEPT ![r].saves = @ + 1]
          /\ IF LastAttempt(variant, loc[r].saves + 1)
             THEN FillRejected(r)
             ELSE UNCHANGED <<fillpc, pc, resp>>
          /\ UNCHANGED fs
    /\ UNCHANGED <<form, variant, env, now, body, hdr, drive, lastFont>>

(* index.js (PDFtk): `await execAsync('pdftk ... fill_form ... output ...
   flatten')` has settled.  pdftk reads the template and the FDF file as they
   are on disk; afterwards fillPdfWithPDFtk unlinks the FDF file. *)
ExecPdftk(r) ==
    /\ fillpc[r] = "exec"
    /\ LET t == fs[loc[r].templatePath]
           f == fs[loc[r].fdfPath]
           noFdf == [fs EXCEPT ![loc[r].fdfPath] = Missing]
       IN  \/ /\ loc' = [loc EXCEPT ![r].saves = @ + 1, ![r].src = t]
              /\ fs' = noFdf
              /\ FillRejected(r)
           \/ /\ t.kind = "template" /\ f.kind = "fdf"
              /\ LET pdf == FilledPdf(f.by, t.tpl, Flattens(variant))
                     l == [loc[r] EXCEPT !.saves = @ + 1, !.src = t,
                                         !.produced = pdf, !.wrote = TRUE]
                 IN  /\ fs' = [noFdf EXCEPT ![loc[r].outputPath] = pdf]
                     /\ fillpc' = [fillpc EXCEPT ![r] = "done"]
                     /\ StartUpload(r, l)
    /\ UNCHANGED <<form, variant, env, now, body, hdr, drive, lastFont>>

(* the 60-second timer of Promise.race fires before fillPdf settles *)
Timeout(r) ==
    /\ HasFillTimeout(variant)
    /\ pc[r] = "race"
    /\ fillpc[r] \in {"load", "save"}
    /\ Catch(r)
    /\ UNCHANGED <<form, variant, env, now, fillpc, body, hdr, loc, fs, drive,
                   lastFont>>

(* ------------------------- upload and cleanup ------------------------- *)

(* the Drive file `drive.files.create` makes of the bytes it is given *)
DriveFile(r, name, bytes) == [by |-> r, name |-> name, bytes |-> bytes]

(* index.js: `try { if (existsSync) unlinkSync ... } catch { warn }`.  An
   unlink that fails leaves the files where they are. *)
GuardedCleanup(r, unlinkFails) ==
    fs' = IF unlinkFails THEN fs
          ELSE [fs EXCEPT ![loc[r].templatePath] = Missing,
                          ![loc[r].outputPath] = Missing]

(* part_006: two bare unlinkSync calls; the first throws when the template
   file is gone *)
BareCleanupThrows(r, unlinkFails) ==
    unlinkFails \/ fs[loc[r].templatePath].kind = "missing"

(* `await drive.files.create(...)` has settled.  The read stream hands Drive
   whatever the output path holds; part_003 uploads its in-memory bytes.
   Then the handler cleans up (if its variant does) and answers. *)
UploadFinish(r) ==
    /\ pc[r] = "create"
    /\ LET bytes == IF UsesTempFiles(variant) THEN fs[loc[r].outputPath]
                    ELSE loc[r].produced
       IN  \/ /\ Catch(r)
              /\ UNCHANGED <<loc, fs, drive>>
           \/ /\ bytes.kind # "missing"
              /\ drive' = drive \cup {DriveFile(r, loc[r].name, bytes)}
              /\ loc' = [loc EXCEPT ![r].uploaded = bytes]
              /\ \E unlinkFails \in IF CleansUp(variant) THEN BOOLEAN ELSE {FALSE} :
                    IF ~CleansUp(variant)
                    THEN /\ UNCHANGED fs
                         /\ Send(r, 200, TRUE, SuccessKeys(variant))
                         /\ pc' = [pc EXCEPT ![r] = "done"]
                    ELSE IF CleanupGuarded(variant)
                    THEN /\ GuardedCleanup(r, unlinkFails)
                         /\ Send(r, 200, TRUE, SuccessKeys(variant))
                         /\ pc' = [pc EXCEPT ![r] = "done"]
                    ELSE IF BareCleanupThrows(r, unlinkFails)
                    THEN /\ UNCHANGED fs
                         /\ Catch(r)
                    ELSE /\ fs' = [fs EXCEPT ![loc[r].templatePath] = Missing,
                                             ![loc[r].outputPath] = Missing]
                         /\ Send(r, 200, TRUE, SuccessKeys(variant))
                         /\ pc' = [pc EXCEPT ![r] = "done"]
    /\ UNCHANGED <<form, variant, env, now, fillpc, body, hdr, lastFont>>

(* ------------------------------ the rest ------------------------------ *)

(* The body of GET /health.  Every field but lastEmbeddedFont is computed from
   process.env and module constants, which no handler assigns. *)
HealthBody ==
    [ok |-> TRUE,
     lastEmbeddedFont |->
        IF variant # "part_011" THEN "(absent)"
        ELSE IF lastFont \in {"undefined", ""} THEN "(none yet)"
        ELSE lastFont]

(* the handler answers HealthBody and assigns nothing *)
Health == UNCHANGED vars

(* a millisecond passes *)
Tick ==
    /\ now < MaxClock
    /\ now' = now + 1
    /\ UNCHANGED <<form, variant, env, pc, fillpc, body, hdr, loc, resp, fs, drive,
                   lastFont>>

Next ==
    \/ \E r \in Requests : Receive(r)
    \/ \E r \in Requests : CheckPDFtk(r)
    \/ \E r \in Requests : GotTemplate(r)
    \/ \E r \in Requests : Piped(r)
    \/ \E r \in Requests : LoadFont(r)
    \/ \E r \in Requests : FillLoad(r)
    \/ \E r \in Requests : EmbedFont(r)
    \/ \E r \in Requests : FillSave(r)
    \/ \E r \in Requests : ExecPdftk(r)
    \/ \E r \in Requests : Timeout(r)
    \/ \E r \in Requests : UploadFinish(r)
    \/ Health
    \/ Tick

Spec == Init /\ [][Next]_vars

(* ============================ the claims ============================== *)

Ended(r) == pc[r] \in {"done", "rejected"}

Succeeded(r) == \E i \in DOMAIN resp[r] : resp[r][i].status = 200

Error500 == Response(500, FALSE, {"error", "detail"})

(* the request carried what its variant's validation asks for *)
PassedValidation(r) ==
    /\ body[r].templateFileId # ""
    /\ variant \in JsFamily => body[r].fields = "given"

NoFields(r) == body[r].templateFileId # "" /\ body[r].fields = "absent"

(* nothing was downloaded, filled, written or uploaded for r *)
NotProcessed(r) ==
    /\ loc[r].gets = 0 /\ loc[r].saves = 0 /\ loc[r].creates = 0
    /\ loc[r].downloaded = NoBytes /\ loc[r].produced = NoBytes
    /\ ~loc[r].wrote
    /\ fillpc[r] = "idle"
    /\ \A f \in drive : f.by # r

(* C1: in index.js (both servers) and index.cjs, a request that passed
   validation and ended without success was answered by exactly one 500
   whose body is {error, detail}. *)
C1_EveryFailureIsOne500 ==
    variant \in {"index_cjs", "index_js_pdflib", "index_js_pdftk"} =>
        \A r \in Requests :
            (Ended(r) /\ PassedValidation(r) /\ ~Succeeded(r))
                => resp[r] = <<Error500>>

(* C2, as claimed: in index.cjs, index.js and part_000 a request with a
   templateFileId and no fields is answered 400 and not processed. *)
C2_NoFieldsIs400 ==
    variant \in {"index_cjs", "index_js_pdflib", "part_000"} =>
        \A r \in Requests :
            (pc[r] # "idle" /\ NoFields(r))
                => /\ resp[r] = <<Response(400, FALSE, {"error"})>>
                   /\ NotProcessed(r)

(* C2, amended: the index.js servers and part_006 answer such a request 400
   and do not process it; the index.cjs family never answers it 400 and
   starts the template download for it. *)
C2_NoFieldsByVariant ==
    \A r \in Requests :
        (pc[r] # "idle" /\ NoFields(r)) =>
            /\ variant \in {"index_js_pdflib", "index_js_pdftk", "part_006"}
                 => /\ resp[r] = <<Response(400, FALSE, {"error"})>>
                    /\ NotProcessed(r)
            /\ variant \in {"index_cjs", "part_000", "part_005", "part_011",
                            "refresh_js"}
                 => /\ loc[r].gets = 1
                    /\ \A i \in DOMAIN resp[r] : resp[r][i].status # 400

C2_Witness ==
    \E r \in Requests :
        /\ variant = "index_cjs" /\ NoFields(r)
        /\ resp[r] = <<Response(200, TRUE, SuccessKeys("index_cjs"))>>
        /\ \E f \in drive : f.by = r

(* C3: in the variants that read only templateFileId, a request without it
   is answered 400 by the first segment of the handler and nothing is ever
   downloaded, written or uploaded for it. *)
C3_NoTemplateIdIs400 ==
    variant # "part_003" =>
        \A r \in Requests :
            (pc[r] # "idle" /\ body[r].templateFileId = "")
                => /\ resp[r] = <<Response(400, FALSE, {"error"})>>
                   /\ pc[r] = "done"
                   /\ loc[r].templatePath = "" /\ loc[r].outputPath = ""
                   /\ NotProcessed(r)

C3_Witness ==
    \E r \in Requests, o \in Requests :
        /\ variant = "index_js_pdftk"
        /\ body[r].templateFileId = "" /\ pc[r] = "done"
        /\ o # r /\ Succeeded(o)

(* C4: in index.cjs and index.js (pdf-lib), the bytes a request fills are
   the bytes it downloaded and the PDF it uploads is the PDF it produced. *)
C4_RequestsIndependent ==
    variant \in {"index_cjs", "index_js_pdflib"} =>
        \A r \in Requests :
            /\ loc[r].produced # NoBytes => loc[r].src = loc[r].downloaded
            /\ loc[r].uploaded # NoBytes => loc[r].uploaded = loc[r].produced

(* C5: the upload starts only after fillPdf has resolved and the filled PDF
   is written, which needs the download; ok:true is sent only after the
   upload completed. *)
C5_StepsInOrder ==
    \A r \in Requests :
        /\ loc[r].produced # NoBytes => loc[r].downloaded # NoBytes
        /\ loc[r].creates > 0
             => /\ loc[r].produced # NoBytes
                /\ fillpc[r] = "done"
                /\ UsesTempFiles(variant) => loc[r].wrote
        /\ \A i \in DOMAIN resp[r] :
              resp[r][i].ok => /\ loc[r].uploaded # NoBytes
                               /\ \E f \in drive : f.by = r /\ f.bytes = loc[r].uploaded

C5_Witness ==
    \E r \in Requests :
        /\ variant = "index_js_pdflib"
        /\ resp[r] = <<Response(200, TRUE, SuccessKeys("index_js_pdflib"))>>
        /\ loc[r].wrote /\ loc[r].uploaded = loc[r].produced

(* C6: part_003 processes a request only when a token is configured and
   the Authorization header is exactly "Bearer " followed by it; with a token
   configured every other header is answered 401, and without one every
   request is turned away (with a 500) before anything is done for it. *)
C6_BearerTokenGuards ==
    variant = "part_003" =>
        \A r \in Requests :
            pc[r] # "idle" =>
                LET valid == /\ env.apiToken # ""
                             /\ hdr[r] = "Bearer " \o env.apiToken
                IN  /\ ~valid => NotProcessed(r) /\ pc[r] = "done"
                    /\ (env.apiToken # "" /\ ~valid)
                         => resp[r] = <<Response(401, FALSE, {"ok", "error"})>>
                    /\ env.apiToken = ""
                         => resp[r] = <<Response(500, FALSE, {"ok", "error"})>>

C6_Witness ==
    \E r \in Requests, o \in Requests :
        /\ variant = "part_003"
        /\ hdr[r] = "Bearer wrong"
        /\ resp[r] = <<Response(401, FALSE, {"ok", "error"})>>
        /\ hdr[o] = "Bearer secret" /\ Succeeded(o)

(* C7: no PDF that a fill saves, and no PDF on Drive, is flattened. *)
C7_NeverFlattened ==
    /\ \A r \in Requests : loc[r].produced.kind = "pdf" => ~loc[r].produced.flat
    /\ \A f \in drive : ~f.bytes.flat

(* C8, as claimed: no step of any handler changes the body of GET /health. *)
C8_HealthNeverChanges == [][HealthBody' = HealthBody]_vars

(* C8, amended: outside part_011 no step changes the body of GET /health; in
   part_011 only a step of fillPdf changes it, and only its lastEmbeddedFont,
   which is "(none yet)" or the font file a fill found on disk and embedded. *)
C8_HealthChangesOnlyInPart011 ==
    [][/\ variant # "part_011" => HealthBody' = HealthBody
       /\ variant = "part_011" =>
            /\ HealthBody'.ok = HealthBody.ok
            /\ HealthBody'.lastEmbeddedFont # "(none yet)"
                 => env.fontOnDisk /\ HealthBody'.lastEmbeddedFont = FontCandidate
            /\ HealthBody' # HealthBody
                 => \E r \in Requests :
                       fillpc[r] \in {"load", "embed"} /\ fillpc'[r] # fillpc[r]
      ]_vars

C8_Witness ==
    /\ variant = "part_011"
    /\ HealthBody.lastEmbeddedFont = FontCandidate
    /\ \E r \in Requests : Succeeded(r)

(* C9, as claimed: download, save and upload are each attempted at most
   once per request. *)
C9_NoStepRetried ==
    \A r \in Requests :
        loc[r].gets <= 1 /\ loc[r].saves <= 1 /\ loc[r].creates <= 1

(* C9, amended: download and upload are attempted at most once and their
   failure ends the request with a 500; the save is attempted up to three
   times in index.cjs, up to twice in part_000, part_005, part_011 and the
   server in RefreshAppearances.java, once elsewhere, and fillPdf fails on a
   save only when the last of these attempts failed. *)
C9_OnlySaveRetried ==
    \A r \in Requests :
        LET most == CASE variant = "index_cjs" -> 3
                      [] variant \in {"part_000", "part_005", "part_011",
                                      "refresh_js"} -> 2
                      [] OTHER -> 1
        IN  /\ loc[r].gets <= 1 /\ loc[r].creates <= 1
            /\ loc[r].saves <= most
            /\ (fillpc[r] = "failed" /\ loc[r].saves > 0) => loc[r].saves = most
            /\ (fillpc[r] = "save" /\ loc[r].saves > 0) => loc[r].saves < most
            /\ (loc[r].gets = 1 /\ loc[r].downloaded = NoBytes
                  /\ pc[r] \notin {"get", "pipe"})
                 => Ended(r) /\ ~Succeeded(r) /\ Len(resp[r]) = 1
            /\ (loc[r].creates = 1 /\ loc[r].uploaded = NoBytes /\ pc[r] # "create")
                 => Ended(r) /\ ~Succeeded(r) /\ Len(resp[r]) = 1

C9_Witness ==
    \E r \in Requests :
        /\ variant = "index_cjs"
        /\ loc[r].saves = 3
        /\ Succeeded(r)

(* C10: in index.js (pdf-lib) and part_006, a request whose upload succeeded
   is answered ok:true whatever its cleanup met. *)
C10_CleanupBestEffort ==
    variant \in {"index_js_pdflib", "part_006"} =>
        \A r \in Requests :
            loc[r].uploaded # NoBytes
                => resp[r] = <<Response(200, TRUE, SuccessKeys(variant))>>

(* ========================= filling the form =========================== *)
(* The field-filling functions are pure: FormSpec starts from one call's
   input (a template's fields and a payload) and applies the function.      *)

(* JavaScript values of a payload: String(v) is v.str *)
JsBool(b) == [type |-> "boolean", str |-> IF b THEN "true" ELSE "false"]

JsStr(s) == [type |-> "string", str |-> s]

JsNum(n) == [type |-> "number", str |-> ToString(n)]

String(value) == value.str

UpperLetters == "ABCDEFGHIJKLMNOPQRSTUVWXYZ"

LowerLetters == "abcdefghijklmnopqrstuvwxyz"

LowerChar(c) ==
    IF \E i \in 1..Len(UpperLetters) : SubSeq(UpperLetters, i, i) = c
    THEN LET i == CHOOSE j \in 1..Len(UpperLetters) : SubSeq(UpperLetters, j, j) = c
         IN  SubSeq(LowerLetters, i, i)
    ELSE c

RECURSIVE toLowerCase(_)
toLowerCase(s) ==
    IF s = "" THEN ""
    ELSE LowerChar(SubSeq(s, 1, 1)) \o toLowerCase(SubSeq(s, 2, Len(s)))

(* ---------------------- part_003: setFieldValue ----------------------- *)

(* part_003, setFieldValue: `boolValue` of a checkbox *)
boolValue(value) ==
    \/ value = JsBool(TRUE)
    \/ /\ value.type = "string"
       /\ value.str \in {"true", "TRUE", "on", "On", "ON", "yes", "Yes", "YES"}
    \/ toLowerCase(String(value)) = "true"

(* the values a payload of part_003 gives a checkbox *)
Values003 ==
    {JsBool(TRUE), JsBool(FALSE), JsNum(1), JsNum(0)}
    \cup {JsStr(w) : w \in {"true", "TRUE", "True", "tRuE", "on", "On", "ON", "oN",
                            "yes", "Yes", "YES", "yEs", "false", "off", "no",
                            "1", "", "x"}}

(* the checkboxes of the template of a part_003 call *)
Boxes003 == {"Agree", "Notify"}

(* a call of the fill loop of part_003: the payload names some of the
   template's checkboxes, each of which is checked or not in the template *)
Inputs003 ==
    {[impl |-> "part_003", stage |-> "input", payload |-> p, checked |-> c] :
        p \in UNION {[D -> Values003] : D \in {{"Agree"}, {"Agree", "Notify"}}},
        c \in {[b \in Boxes003 |-> FALSE], [b \in Boxes003 |-> TRUE]}}

(* part_003: the loop over Object.entries(fields), for checkboxes:
   field.check() when boolValue, field.uncheck() otherwise *)
Fill003 ==
    /\ form.impl = "part_003" /\ form.stage = "input"
    /\ form' = [form EXCEPT
                  !.stage = "filled",
                  !.checked = [b \in DOMAIN form.checked |->
                                  IF b \in DOMAIN form.payload
                                  THEN boolValue(form.payload[b])
                                  ELSE form.checked[b]]]
    /\ UNCHANGED <<variant, env, now, pc, fillpc, body, hdr, loc, resp, fs,
                   drive, lastFont>>

(* C11: after the fill loop of part_003, a checkbox the payload names is
   checked exactly when the value is true or is "true", "on" or "yes" in
   any letter case. *)
C11_CheckboxFromTruthyWord ==
    (form.impl = "part_003" /\ form.stage = "filled") =>
        \A b \in DOMAIN form.payload :
            form.checked[b] <=>
                \/ form.payload[b] = JsBool(TRUE)
                \/ /\ form.payload[b].type = "string"
                   /\ toLowerCase(form.payload[b].str) \in {"true", "on", "yes"}

(* ------------------------------ C12 ----------------------------------- *)

(* C12: in part_003 a new-format request and a legacy-format request with
   the same header that carry the same template, output name and folder are
   read to the same templateId, outputName and folderId, pass or fail
   validation together with the same response, and on success get the same
   response and a Drive file of the same name made from the same template. *)
C12_FormatsProcessedAlike ==
    variant = "part_003" =>
        \A r \in Requests, o \in Requests :
            ( /\ pc[r] # "idle" /\ pc[o] # "idle" /\ hdr[r] = hdr[o]
              /\ body[r].hasOutput /\ body[r].templateFileId = ""
              /\ ~body[o].hasOutput /\ body[o].templateId = ""
              /\ body[r].templateId = body[o].templateFileId
              /\ body[r].output.name = body[o].outputName
              /\ body[r].output.folderId = body[o].folderId
              /\ body[r].fields = body[o].fields )
            => /\ loc[r].templateId = loc[o].templateId
               /\ loc[r].name = loc[o].name
               /\ loc[r].folderId = loc[o].folderId
               /\ (loc[r].gets = 0) <=> (loc[o].gets = 0)
               /\ loc[r].gets = 0 => resp[r] = resp[o]
               /\ (Succeeded(r) /\ Succeeded(o)) =>
                     /\ resp[r] = resp[o]
                     /\ \A f \in drive, g \in drive :
                           (f.by = r /\ g.by = o)
                              => f.name = g.name /\ f.bytes.tpl = g.bytes.tpl

C12_Witness ==
    \E r \in Requests, o \in Requests :
        /\ variant = "part_003"
        /\ body[r].hasOutput /\ body[r].templateId = "T1"
        /\ body[r].output.name = "a.pdf" /\ body[r].output.folderId = "F1"
        /\ body[o].templateFileId = "T1" /\ body[o].outputName = "a.pdf"
        /\ body[o].folderId = "F1"
        /\ Succeeded(r) /\ Succeeded(o)
        /\ \E f \in drive : f.by = r
        /\ \E g \in drive : g.by = o

(* ------------------------------ C13 ----------------------------------- *)

(* C13, as claimed: in index.cjs, index.js (pdf-lib) and part_011 every
   successful response carries ok = true, filledCount, driveFile and
   webViewLink. *)
C13_SuccessHasFourKeys ==
    variant \in {"index_cjs", "index_js_pdflib", "part_011"} =>
        \A r \in Requests : \A i \in DOMAIN resp[r] :
            resp[r][i].status = 200
                => /\ resp[r][i].ok
                   /\ {"ok", "filledCount", "driveFile", "webViewLink"}
                         \subseteq resp[r][i].keys

(* C13, amended: every successful response carries ok = true and the
   driveFile of a file the request uploaded; filledCount is there in every
   variant but the index.js servers and part_006, and a top-level webViewLink
   only in index.cjs, part_000, part_005 and the server in
   RefreshAppearances.java. *)
C13_SuccessKeysByVariant ==
    \A r \in Requests : \A i \in DOMAIN resp[r] :
        resp[r][i].status = 200
            => /\ resp[r][i].ok
               /\ {"ok", "driveFile"} \subseteq resp[r][i].keys
               /\ \E f \in drive : f.by = r
               /\ "filledCount" \in resp[r][i].keys
                    <=> variant \notin {"index_js_pdflib", "index_js_pdftk",
                                        "part_006"}
               /\ "webViewLink" \in resp[r][i].keys
                    <=> variant \in {"index_cjs", "part_000", "part_005",
                                     "refresh_js"}

C13_Witness ==
    \E r \in Requests :
        /\ variant = "index_js_pdflib"
        /\ resp[r] = <<Response(200, TRUE, {"ok", "driveFile"})>>
        /\ \E f \in drive : f.by = r

(* --------------------------- GET /fields ------------------------------ *)

RECURSIVE trimStart(_)
trimStart(s) ==
    IF s # "" /\ SubSeq(s, 1, 1) = " " THEN trimStart(SubSeq(s, 2, Len(s))) ELSE s

RECURSIVE trimEnd(_)
trimEnd(s) ==
    IF s # "" /\ SubSeq(s, Len(s), Len(s)) = " "
    THEN trimEnd(SubSeq(s, 1, Len(s) - 1))
    ELSE s

(* String.prototype.trim *)
trim(s) == trimEnd(trimStart(s))

(* what Drive may hold under the id T1: a PDF whose form lists its fields in
   document order, a PDF whose form cannot be read, or bytes that are no PDF *)
DriveDocs ==
    {[kind |-> "pdf", form |-> "ok", names |-> n] :
        n \in {<<>>, <<"B">>, <<"A", "B">>, <<"B", "A">>, <<"B", "A", "C">>}}
    \cup {[kind |-> "pdf", form |-> "broken", names |-> <<"A">>],
          [kind |-> "garbage", form |-> "none", names |-> <<>>]}

(* req.query.fileId; "" when the parameter is missing *)
FileIds == {"", " ", "  ", "T1", " T1", "T1 ", " T1 ", "T9"}

NoAnswer == [status |-> 0, count |-> 0, names |-> <<>>]

InputsFields ==
    {[impl |-> "fields", stage |-> "input", fileId |-> q, doc |-> d,
      gets |-> 0, got |-> "", listed |-> FALSE, answer |-> NoAnswer] :
        q \in FileIds, d \in DriveDocs}

(* the listing without its inner try/catch *)
ListNames_NoInnerTry(doc) ==
    IF doc.form = "ok"
    THEN [status |-> 200, count |-> Len(doc.names), names |-> doc.names]
    ELSE [status |-> 500, count |-> 0, names |-> <<>>]

(* `names = form.getFields().map(f => f.getName())` inside try/catch, then
   res.json({ count: names.length, names }) *)
ListNames(doc) ==
    LET names == IF doc.form = "ok" THEN doc.names ELSE <<>>
    IN  [status |-> 200, count |-> Len(names), names |-> names]

(* GET /fields up to `await downloadDriveFile(fileId, localPath)` *)
FieldsReceive ==
    /\ form.impl = "fields" /\ form.stage = "input"
    /\ LET fileId == trim(form.fileId) IN
       IF fileId = ""
       THEN form' = [form EXCEPT !.stage = "answered",
                                 !.answer = [NoAnswer EXCEPT !.status = 400]]
       ELSE form' = [form EXCEPT !.stage = "download", !.gets = 1, !.got = fileId]
    /\ UNCHANGED <<variant, env, now, pc, fillpc, body, hdr, loc, resp, fs,
                   drive, lastFont>>

(* the download settles: Drive knows only T1; any download may fail *)
FieldsDownloaded ==
    /\ form.impl = "fields" /\ form.stage = "download"
    /\ \/ form' = [form EXCEPT !.stage = "answered",
                               !.answer = [NoAnswer EXCEPT !.status = 500]]
       \/ /\ form.got = "T1"
          /\ form' = [form EXCEPT !.stage = "load"]
    /\ UNCHANGED <<variant, env, now, pc, fillpc, body, hdr, loc, resp, fs,
                   drive, lastFont>>

(* `await PDFDocument.load(bytes)` settles, the names are listed, the handler
   answers *)
FieldsAnswer ==
    /\ form.impl = "fields" /\ form.stage = "load"
    /\ form' = [form EXCEPT
                  !.stage = "answered", !.listed = TRUE,
                  !.answer = IF form.doc.kind = "pdf" THEN ListNames(form.doc)
                             ELSE [NoAnswer EXCEPT !.status = 500]]
    /\ UNCHANGED <<variant, env, now, pc, fillpc, body, hdr, loc, resp, fs,
                   drive, lastFont>>

(* C14: GET /fields answers a missing or blank fileId 400 without a download;
   a 200 lists the names of the template's form in document order with
   count their number, and a template whose form cannot be read is answered
   200 with count 0 and no names. *)
C14_FieldsListsNames ==
    (form.impl = "fields" /\ form.stage = "answered") =>
        /\ form.fileId \in {"", " ", "  "}
             => form.answer.status = 400 /\ form.gets = 0
        /\ form.fileId \notin {"", " ", "  "} => form.answer.status # 400
        /\ form.answer.status = 200 =>
              /\ form.fileId \in {"T1", " T1", "T1 ", " T1 "}
              /\ form.doc.kind = "pdf"
              /\ form.answer.count = Len(form.answer.names)
              /\ form.doc.form = "ok" => form.answer.names = form.doc.names
              /\ form.doc.form # "ok"
                   => form.answer.count = 0 /\ form.answer.names = <<>>
        /\ (form.listed /\ form.doc.kind = "pdf") => form.answer.status = 200

C14_Witness ==
    /\ form.impl = "fields" /\ form.stage = "answered"
    /\ form.fileId = " T1 "
    /\ form.answer = [status |-> 200, count |-> 3, names |-> <<"B", "A", "C">>]

(* ------------- RefreshAppearances.java: the embedded fillPdf ---------- *)

(* the Japanese words for yes and no, written in ASCII *)
Hai == "ja:hai"

Iie == "ja:iie"

(* String.prototype.includes, for a single character *)
RECURSIVE Includes(_, _)
Includes(s, c) ==
    IF s = "" THEN FALSE
    ELSE SubSeq(s, 1, 1) = c \/ Includes(SubSeq(s, 2, Len(s)), c)

(* RefreshAppearances.java: norm *)
norm(value) == trim(String(value))

(* RefreshAppearances.java: yn, of a string *)
yn(s) ==
    LET v == toLowerCase(trim(s)) IN
    IF v \in {"true", "yes", "y", "1", "on"} THEN "yes"
    ELSE IF v \in {"false", "no", "n", "0", "off"} THEN "no"
    ELSE IF v = Hai THEN "yes"
    ELSE IF v = Iie THEN "no"
    ELSE v

(* RefreshAppearances.java: applyYesNoPair, on the checkboxes' states *)
applyYesNoPair(checked, base, answer) ==
    LET yesName == base \o "_yes"
        noName == base \o "_no"
        ans == yn(answer)
    IN  [b \in DOMAIN checked |->
            IF ans = "yes" /\ b = yesName THEN TRUE
            ELSE IF ans = "yes" /\ b = noName THEN FALSE
            ELSE IF ans = "no" /\ b = noName THEN TRUE
            ELSE IF ans = "no" /\ b = yesName THEN FALSE
            ELSE checked[b]]

(* RefreshAppearances.java: applySingleChoiceBySuffix *)
applySingleChoiceBySuffix(checked, base, value) ==
    LET target == base \o "_" \o value IN
    [b \in DOMAIN checked |->
        IF b = target THEN TRUE
        ELSE IF StartsWith(b, base \o "_") THEN FALSE
        ELSE checked[b]]

(* fillPdf, pass 4-1, for one payload entry *)
RefreshPass1Entry(checked, e) ==
    LET key == e.key
        val == norm(e.val)
        ynVal == yn(val)
        c1 == IF ynVal \in {"yes", "no"} THEN applyYesNoPair(checked, key, ynVal)
              ELSE checked
    IN  IF ~Includes(key, "_") /\ val # ""
        THEN applySingleChoiceBySuffix(c1, key, val)
        ELSE c1

(* fillPdf, pass 4-2, for one payload entry: the checkbox branch *)
RefreshPass2Entry(checked, e) ==
    IF e.key \notin DOMAIN checked THEN checked
    ELSE LET v == yn(norm(e.val)) IN
         IF v \in {"yes", "true", "1", "on"} THEN [checked EXCEPT ![e.key] = TRUE]
         ELSE IF v \in {"no", "false", "0", "off"} THEN [checked EXCEPT ![e.key] = FALSE]
         ELSE [checked EXCEPT ![e.key] = TRUE]

RECURSIVE RefreshPass1(_, _)
RefreshPass1(checked, entries) ==
    IF entries = <<>> THEN checked
    ELSE RefreshPass1(RefreshPass1Entry(checked, Head(entries)), Tail(entries))

RECURSIVE RefreshPass2(_, _)
RefreshPass2(checked, entries) ==
    IF entries = <<>> THEN checked
    ELSE RefreshPass2(RefreshPass2Entry(checked, Head(entries)), Tail(entries))

(* the payload values the yes/no logic is tried on *)
YesNoValues ==
    {JsBool(TRUE), JsBool(FALSE), JsNum(1), JsNum(0)}
    \cup {JsStr(w) : w \in {"true", "yes", "y", "1", "on", Hai, "YES", "Yes", "True",
                            "Y", "On", "false", "no", "n", "0", "off", Iie, "NO",
                            "No", "False", "N", "Off", "", "maybe", " yes "}}

(* the checkboxes of the template: a pair whose base has no underscore and
   a pair whose base has one *)
BoxesRefresh == {"Smoker_yes", "Smoker_no", "Q1_Smoker_yes", "Q1_Smoker_no"}

Entry(k, v) == [key |-> k, val |-> v]

(* payloads of one entry, and of two entries with fewer values *)
PayloadsRefresh ==
    {<<Entry(k, v)>> : k \in {"Smoker", "Q1_Smoker", "Smoker_no"}, v \in YesNoValues}
    \cup {<<Entry(k[1], v), Entry(k[2], w)>> :
            k \in {<<"Smoker", "Smoker_no">>, <<"Smoker_no", "Smoker">>,
                   <<"Q1_Smoker", "Smoker">>},
            v \in {JsStr("yes"), JsStr("no"), JsStr("on")},
            w \in {JsStr("yes"), JsStr("no"), JsStr("on")}}

InputsRefresh ==
    {[impl |-> "refresh_js", stage |-> "input", payload |-> p, checked |-> c] :
        p \in PayloadsRefresh,
        c \in {[b \in BoxesRefresh |-> FALSE], [b \in BoxesRefresh |-> TRUE]}}

(* fillPdf of the server in RefreshAppearances.java: pass 4-1, then 4-2 *)
FillRefresh ==
    /\ form.impl = "refresh_js" /\ form.stage = "input"
    /\ form' = [form EXCEPT
                  !.stage = "filled",
                  !.checked = RefreshPass2(RefreshPass1(form.checked, form.payload),
                                           form.payload)]
    /\ UNCHANGED <<variant, env, now, pc, fillpc, body, hdr, loc, resp, fs,
                   drive, lastFont>>

(* C15: for a payload of one entry {Base: v}, where the template has
   Base_yes and Base_no: a yes-word v in any letter case leaves Base_yes
   checked and Base_no unchecked, a no-word the other way round. *)
C15_YesNoPairFromBase ==
    ( /\ form.impl = "refresh_js" /\ form.stage = "filled"
      /\ Len(form.payload) = 1
      /\ form.payload[1].key \in {"Smoker", "Q1_Smoker"}
      /\ form.payload[1].val.type = "string" ) =>
        LET base == form.payload[1].key
            v == toLowerCase(form.payload[1].val.str)
        IN  /\ v \in {"true", "yes", "y", "1", "on", Hai}
                 => form.checked[base \o "_yes"] /\ ~form.checked[base \o "_no"]
            /\ v \in {"false", "no", "n", "0", "off", Iie}
                 => form.checked[base \o "_no"] /\ ~form.checked[base \o "_yes"]

(* -------------------- index.cjs: fillPdf, checkboxes ----------------- *)

Undefined == [type |-> "undefined", str |-> "undefined"]

(* fields[key] *)
Get(fields, key) == IF key \in DOMAIN fields THEN fields[key] ELSE Undefined

(* !value, for the values a payload holds *)
Falsy(value) ==
    \/ value.type = "undefined"
    \/ value.type = "string" /\ value.str = ""
    \/ value.type = "boolean" /\ value.str = "false"
    \/ value.type = "number" /\ value.str = "0"

(* String(value || '') *)
StringOrEmpty(value) == IF Falsy(value) THEN "" ELSE String(value)

UpperChar(c) ==
    IF \E i \in 1..Len(LowerLetters) : SubSeq(LowerLetters, i, i) = c
    THEN LET i == CHOOSE j \in 1..Len(LowerLetters) : SubSeq(LowerLetters, j, j) = c
         IN  SubSeq(UpperLetters, i, i)
    ELSE c

RECURSIVE toUpperCase(_)
toUpperCase(s) ==
    IF s = "" THEN ""
    ELSE UpperChar(SubSeq(s, 1, 1)) \o toUpperCase(SubSeq(s, 2, Len(s)))

(* String.prototype.includes *)
Contains(s, sub) ==
    \E i \in 1..(Len(s) - Len(sub) + 1) : SubSeq(s, i, i + Len(sub) - 1) = sub

(* value === 'literal' *)
IsStr(value, literal) == value.type = "string" /\ value.str = literal

(* the checkbox names index.cjs compares with `fields[name] === 'on'`; the
   Japanese suffixes of the source are written in ASCII *)
ExplicitOnNames ==
    {"CoverageValue_ja:day", "CoverageValue_ja:month", "TravelerSex_ja:male",
     "TravelerSex_ja:female"}

(* whether the group loop checks the boxes of group groupName, for every
   branch but Q5_DestinationRegion *)
ShouldCheckCjs(fields, groupName) ==
    IF groupName \in ExplicitOnNames
    THEN IsStr(Get(fields, groupName), "on")
    ELSE IF StartsWith(groupName, "Emergency") /\ Contains(groupName, "Thousand")
    THEN toUpperCase(StringOrEmpty(Get(fields, groupName)))
            \in {"TRUE", "YES", "ON", "1"}
    ELSE IF Contains(groupName, "BirthEra")
    THEN StringOrEmpty(Get(fields, groupName)) \in {"19", "20"}
    ELSE LET fieldValue == Get(fields, groupName) IN
         \/ IsStr(fieldValue, "on") \/ IsStr(fieldValue, Hai)
         \/ IsStr(fieldValue, "yes") \/ IsStr(fieldValue, "true")
         \/ toUpperCase(String(fieldValue)) = "TRUE"

(* one round of the loop over Object.entries(checkboxGroups) *)
GroupStepCjs(checked, fields, groupName) ==
    IF groupName = "Q5_DestinationRegion"
    THEN LET regionCheckboxName ==
                 "DestinationRegion_" \o StringOrEmpty(Get(fields, groupName))
         IN  IF regionCheckboxName \in DOMAIN checked
             THEN [checked EXCEPT ![regionCheckboxName] = TRUE]
             ELSE [checked EXCEPT ![groupName] = FALSE]
    ELSE [checked EXCEPT ![groupName] = ShouldCheckCjs(fields, groupName)]

(* the loop over the checkbox groups, in the order the first loop met the
   template's checkboxes; that first loop only collects them (its
   `continue` leaves its own checkbox branch, lines 309 and on, unreached) *)
RECURSIVE GroupsCjs(_, _, _)
GroupsCjs(checked, fields, names) ==
    IF names = <<>> THEN checked
    ELSE GroupsCjs(GroupStepCjs(checked, fields, Head(names)), fields, Tail(names))

(* templates: the checkboxes in document order *)
TemplatesCjs ==
    {<<"TreatmentNow_yes", "TreatmentNow_no", "Q5_DestinationRegion",
       "DestinationRegion_Asia", "DestinationRegion_Europe">>,
     <<"DestinationRegion_Europe", "DestinationRegion_Asia", "Q5_DestinationRegion",
       "TreatmentNow_no", "TreatmentNow_yes">>,
     <<"DestinationRegion_Asia", "TreatmentNow_yes", "TreatmentNow_no",
       "EmergencyReturn5Thousand", "ApplicantBirthEra19or20",
       "TravelerSex_ja:male">>}

AnswersCjs == {JsStr(w) : w \in {"yes", "no", "on", "true", "YES", Hai, ""}}
                 \cup {JsBool(TRUE), JsBool(FALSE)}

RegionsCjs == {JsStr("Asia"), JsStr("Europe"), JsStr("Africa"), JsStr("")}

(* payloads: req.body.fields *)
PayloadsCjs ==
    UNION {[{k} -> AnswersCjs] :
             k \in {"TreatmentNow", "Q1_TreatmentNow", "TreatmentNow_yes",
                    "TreatmentNow_no", "EmergencyReturn5Thousand",
                    "TravelerSex_ja:male"}}
    \cup [{"Q5_DestinationRegion"} -> RegionsCjs]
    \cup [{"DestinationRegion"} -> RegionsCjs]
    \cup {[ApplicantBirthEra19or20 |-> v] : v \in {JsStr("19"), JsNum(20), JsStr("21")}}
    \cup {[TreatmentNow |-> a, Q5_DestinationRegion |-> g] :
             a \in {JsStr("yes"), JsStr("no")}, g \in RegionsCjs}

InputsCjs ==
    {[impl |-> "index_cjs", stage |-> "input", payload |-> p, template |-> t,
      checked |-> [b \in {t[i] : i \in DOMAIN t} |-> c]] :
        p \in PayloadsCjs, t \in TemplatesCjs, c \in BOOLEAN}

(* fillPdf of index.cjs, step 3, as far as checkboxes go *)
FillCjs ==
    /\ form.impl = "index_cjs" /\ form.stage = "input"
    /\ form' = [form EXCEPT
                  !.stage = "filled",
                  !.checked = GroupsCjs(form.checked, form.payload, form.template)]
    /\ UNCHANGED <<variant, env, now, pc, fillpc, body, hdr, loc, resp, fs,
                   drive, lastFont>>

(* C16: in index.cjs, when the payload answers TreatmentNow (under that key
   or under Q1_TreatmentNow) and names neither box itself, a yes answer
   leaves TreatmentNow_yes checked and TreatmentNow_no unchecked, a no answer
   the other way round. *)
C16_PairFromBaseOrAlias ==
    ( /\ form.impl = "index_cjs" /\ form.stage = "filled"
      /\ DOMAIN form.payload \cap {"TreatmentNow", "Q1_TreatmentNow"} # {}
      /\ "TreatmentNow_yes" \in DOMAIN form.checked
      /\ "TreatmentNow_no" \in DOMAIN form.checked ) =>
        LET a == IF "TreatmentNow" \in DOMAIN form.payload
                 THEN form.payload["TreatmentNow"]
                 ELSE form.payload["Q1_TreatmentNow"]
        IN  /\ (a.type = "string" /\ a.str = "yes")
                 => form.checked["TreatmentNow_yes"] /\ ~form.checked["TreatmentNow_no"]
            /\ (a.type = "string" /\ a.str = "no")
                 => form.checked["TreatmentNow_no"] /\ ~form.checked["TreatmentNow_yes"]

(* C17: in index.cjs, when the payload gives Q5_DestinationRegion = R and
   the template has a checkbox DestinationRegion_R, that box is checked after
   the fill, in whatever order the template lists its fields. *)
C17_RegionBoxChecked ==
    ( /\ form.impl = "index_cjs" /\ form.stage = "filled"
      /\ "Q5_DestinationRegion" \in DOMAIN form.payload ) =>
        LET box == "DestinationRegion_" \o form.payload["Q5_DestinationRegion"].str
        IN  box \in DOMAIN form.checked => form.checked[box]

(* C25: once a POST /fill request has been answered, with success or with an
   error, the 60-second fill timeout included, it writes no temp file and
   makes no Drive call any more *)
C25_NoWorkAfterAnswer ==
    [][\A r \in Requests :
          Ended(r) =>
              /\ loc'[r].wrote = loc[r].wrote
              /\ loc'[r].produced = loc[r].produced
              /\ loc'[r].gets = loc[r].gets
              /\ loc'[r].creates = loc[r].creates
              /\ loc'[r].uploaded = loc[r].uploaded]_vars

(* -------- part_000 and index.cjs: value resolution, part_000 boxes ---- *)

(* value == null *)
Nullish(value) == value.type \in {"undefined", "null"}

JsNull == [type |-> "null", str |-> "null"]

(* s.replace(/[chars]/g, by) and, with run = TRUE, s.replace(/[chars]+/g, by) *)
RECURSIVE ReplaceAll(_, _, _, _)
ReplaceAll(s, chars, by, run) ==
    IF s = "" THEN ""
    ELSE LET c == SubSeq(s, 1, 1)
             rest == SubSeq(s, 2, Len(s))
         IN  IF c \notin chars THEN c \o ReplaceAll(rest, chars, by, run)
             ELSE IF run /\ rest # "" /\ SubSeq(rest, 1, 1) \in chars
             THEN ReplaceAll(rest, chars, by, run)
             ELSE by \o ReplaceAll(rest, chars, by, run)

(* stripWeird: quotes removed, runs of white space collapsed, trimmed *)
stripWeird(value) ==
    IF Nullish(value) THEN ""
    ELSE trim(ReplaceAll(ReplaceAll(String(value), {"\"", "'"}, "", FALSE),
                         {" "}, " ", TRUE))

(* normalizeYesNo; the two Japanese answers are Hai and Iie, and a word
   beginning with their first letter is one beginning "ja:ha" or "ja:i" *)
normalizeYesNo(vRaw) ==
    LET v == toLowerCase(stripWeird(vRaw)) IN
    IF v = "" THEN ""
    ELSE IF v \in {"yes", "true", "1", "on"} \/ v = Hai THEN "yes"
    ELSE IF v \in {"no", "false", "0", "off"} \/ v = Iie THEN "no"
    ELSE IF StartsWith(v, "ja:ha") THEN "yes"
    ELSE IF StartsWith(v, "ja:i") THEN "no"
    ELSE v

(* A normalizeRegion without its table of English names. *)
normalizeRegion_NoMap(vRaw) == stripWeird(vRaw)

(* normalizeRegion; the Japanese region names are written "ja:<region>" *)
normalizeRegion(vRaw) ==
    LET v == stripWeird(vRaw)
        t == toLowerCase(v)
    IN  IF t = "asia" THEN "ja:asia"
        ELSE IF t = "europe" THEN "ja:europe"
        ELSE IF t = "oceania" THEN "ja:oceania"
        ELSE IF t = "north america" THEN "ja:north america"
        ELSE IF t \in {"south america", "latin america"} THEN "ja:latin america"
        ELSE IF t = "africa" THEN "ja:africa"
        ELSE IF t = "middle east" THEN "ja:middle east"
        ELSE IF t = "other" THEN "ja:other"
        ELSE v

(* aliasPairs of buildAliasView, with the pair it treats after the loop *)
aliasPairs ==
    {<<"TreatmentNow", "Q1_TreatmentNow">>,
     <<"SeriousHistory", "Q2_SeriousHistory">>,
     <<"LuggageClaims5Plus", "Q3_LuggageClaims5Plus">>,
     <<"DuplicateContracts", "Q4_DuplicateContracts">>,
     <<"SanctionedCountries", "Q6_SanctionedCountries">>,
     <<"WorkDuringTravel", "Q7_JobDuringTravel">>,
     <<"DestinationRegion", "Q5_DestinationRegion">>}

(* A buildAliasView that copies an alias over its base key whenever the
   alias has a value, whatever the payload gives under the base key. *)
buildAliasView_AliasWins(f) ==
    LET copied == {p \in aliasPairs : ~Nullish(Get(f, p[2]))}
    IN  [k \in DOMAIN f \cup {p[1] : p \in copied} |->
            IF \E p \in copied : p[1] = k
            THEN f[(CHOOSE p \in copied : p[1] = k)[2]]
            ELSE f[k]]

(* buildAliasView: the payload, and under each base key that it leaves
   null the value of its alias; no base is another pair's alias, so the
   order of the pairs does not matter *)
buildAliasView(f) ==
    LET copied == {p \in aliasPairs :
                      Nullish(Get(f, p[1])) /\ ~Nullish(Get(f, p[2]))}
    IN  [k \in DOMAIN f \cup {p[1] : p \in copied} |->
            IF \E p \in copied : p[1] = k
            THEN f[(CHOOSE p \in copied : p[1] = k)[2]]
            ELSE f[k]]

(* value != null && value !== '' *)
Present(value) == ~Nullish(value) /\ ~IsStr(value, "")

(* resolveValue of index.cjs: exact name, then alias view, then '' *)
resolveValueCjs(name, fields, aliasView) ==
    IF Present(Get(fields, name)) THEN Get(fields, name)
    ELSE IF Present(Get(aliasView, name)) THEN Get(aliasView, name)
    ELSE JsStr("")

(* resolveValue of part_000: exact name, alias view, first of the name's
   variants that the payload or the alias view answers, then '' *)
resolveValue(name, fields, aliasView) ==
    LET n == name
        variants ==
            <<ReplaceAll(n, {" "}, "", TRUE),
              ReplaceAll(n, {"-", " "}, "_", FALSE),
              ReplaceAll(n, {"_", " "}, "-", FALSE)>>
            \o (IF EndsWith(n, "FullName")
                THEN <<n \o "Kanji", n \o "Kana">> ELSE <<>>)
            \o (IF EndsWith(n, "Kanji")
                THEN <<SubSeq(n, 1, Len(n) - 5)>> ELSE <<>>)
            \o (IF EndsWith(n, "Kana")
                THEN <<SubSeq(n, 1, Len(n) - 4)>> ELSE <<>>)
        hit(v) == Present(Get(fields, v)) \/ Present(Get(aliasView, v))
        of(v) == IF Present(Get(fields, v)) THEN Get(fields, v)
                 ELSE Get(aliasView, v)
    IN  IF hit(name) THEN of(name)
        ELSE IF \E i \in 1..Len(variants) : hit(variants[i])
        THEN of(variants[CHOOSE i \in 1..Len(variants) :
                            /\ hit(variants[i])
                            /\ \A j \in 1..(i - 1) : ~hit(variants[j])])
        ELSE JsStr("")

(* the checkbox branch of part_000's field loop for the box called name:
   whether the box is checked afterwards *)
CheckBox000(name, fields, valueBy, was) ==
    LET lower == toLowerCase(name)
        isYesBox == EndsWith(lower, "_yes")
        isPair == (isYesBox /\ Len(name) >= 4) \/ EndsWith(lower, "_no")
        base == SubSeq(name, 1, Len(name) - (IF isYesBox THEN 4 ELSE 3))
        baseVal == IF ~Nullish(Get(valueBy, base)) THEN Get(valueBy, base)
                   ELSE Get(fields, base)
        prefix == "DestinationRegion_"
        want == stripWeird(JsStr(SubSeq(name, Len(prefix) + 1, Len(name))))
        region == IF ~Falsy(Get(valueBy, "DestinationRegion"))
                  THEN Get(valueBy, "DestinationRegion")
                  ELSE IF ~Falsy(Get(fields, "DestinationRegion"))
                  THEN Get(fields, "DestinationRegion")
                  ELSE JsStr("")
        given == normalizeRegion(region)
        single == resolveValue(name, fields, valueBy)
    IN  IF isPair
        THEN /\ ~Nullish(baseVal)
             /\ \/ isYesBox /\ normalizeYesNo(baseVal) = "yes"
                \/ ~isYesBox /\ normalizeYesNo(baseVal) = "no"
        ELSE IF StartsWith(name, prefix) /\ Len(name) > Len(prefix)
        THEN want # "" /\ given # "" /\ want = given
        ELSE IF ~IsStr(single, "")
        THEN normalizeYesNo(single) \in {"yes", "on", "1", "true"}
        ELSE was

(* the checkboxes of the template part_000 fills *)
Boxes000 ==
    {"TreatmentNow_yes", "TreatmentNow_no", "Smoker_YES", "Smoker_No",
     "DestinationRegion_ja:asia", "DestinationRegion_ja:north america",
     "DestinationRegion_ja:latin america", "Agree"}

(* what a payload may say under one key: nothing, null, or a value *)
Answers000 ==
    {Undefined, JsNull, JsStr(""), JsStr("yes"), JsStr(" No "), JsStr(Hai),
     JsStr("maybe"), JsBool(TRUE)}

(* the payloads: an answer under a base key, under its Q-prefixed alias,
   under a base that has no alias, a region and a single box's own name;
   and the payloads that name a destination region, under the key or its
   alias, in English or in Japanese *)
Payloads000 ==
    {[k \in {key \in {"TreatmentNow", "Q1_TreatmentNow", "Smoker",
                       "DestinationRegion", "Agree"} :
                 (CASE key = "TreatmentNow" -> a
                    [] key = "Q1_TreatmentNow" -> q
                    [] key = "Smoker" -> s
                    [] key = "DestinationRegion" -> d
                    [] key = "Agree" -> g).type # "undefined"} |->
         CASE k = "TreatmentNow" -> a
           [] k = "Q1_TreatmentNow" -> q
           [] k = "Smoker" -> s
           [] k = "DestinationRegion" -> d
           [] k = "Agree" -> g] :
        a \in Answers000, q \in Answers000,
        s \in {Undefined, JsStr("off"), JsStr("'yes'")},
        d \in {Undefined, JsStr("Asia")},
        g \in {Undefined, JsStr("on")}}
    \cup
    {[k \in {key \in {"DestinationRegion", "Q5_DestinationRegion"} :
                 (IF key = "DestinationRegion" THEN d ELSE q).type
                    # "undefined"} |->
         IF k = "DestinationRegion" THEN d ELSE q] :
        d \in {Undefined, JsNull, JsStr("")}
               \cup {JsStr(r) : r \in {"Asia", " north  america ", "South America",
                                       "LATIN AMERICA", "ja:asia", "Europe",
                                       "Asia, Europe"}},
        q \in {Undefined, JsStr(""), JsStr("North America"), JsStr("asia")}}

(* the calls of part_000's fillPdf: a payload, and a template whose boxes
   all start unchecked or all start checked *)
Inputs000 ==
    {[impl |-> "part_000", stage |-> "input", payload |-> p,
      checked |-> [b \in Boxes000 |-> c]] :
        p \in Payloads000, c \in BOOLEAN}

(* fillPdf of part_000, its checkboxes: every box of the template is set
   from the payload and its alias view *)
Fill000 ==
    /\ form.impl = "part_000"
    /\ form.stage = "input"
    /\ LET valueBy == buildAliasView(form.payload) IN
       form' = [form EXCEPT
                  !.stage = "filled",
                  !.checked = [b \in Boxes000 |->
                      CheckBox000(b, form.payload, valueBy, form.checked[b])]]
    /\ UNCHANGED <<variant, env, now, pc, fillpc, body, hdr, loc, resp, fs,
                   drive, lastFont>>

(* ------------------- part_005: fillPdf, checkboxes -------------------- *)

YES_WORDS == {"true", "1", "on", "yes"}

NO_WORDS == {"false", "0", "off", "no"}

(* normalizeForField: the payload value as the field called fieldName is
   to receive it. REGION_MAP_EN2JA is written as in normalizeRegion *)
normalizeForField(fieldName, raw) ==
    LET v == trim(String(raw))
        lower == toLowerCase(v)
        name == toLowerCase(fieldName)
        Digit(c) == c \in {"0", "1", "2", "3", "4", "5", "6", "7", "8", "9"}
        (* /_?(YesNo|Yes|No|YN)$/i *)
        yesNoName == \E suffix \in {"yesno", "yes", "no", "yn"} :
                        EndsWith(name, suffix)
        (* /Q\d+_/ *)
        questionName ==
            \E i \in 1..Len(fieldName) : \E j \in (i + 2)..Len(fieldName) :
                /\ SubSeq(fieldName, i, i) = "Q"
                /\ SubSeq(fieldName, j, j) = "_"
                /\ \A k \in (i + 1)..(j - 1) : Digit(SubSeq(fieldName, k, k))
        (* /(destination|region|travelRegion|mainDestination)/i *)
        regionName == Contains(name, "destination") \/ Contains(name, "region")
        REGION_MAP_EN2JA ==
            [asia |-> "ja:asia", europe |-> "ja:europe", oceania |-> "ja:oceania",
             africa |-> "ja:africa", other |-> "ja:other", others |-> "ja:other"]
            @@ ("north america" :> "ja:north america")
            @@ ("latin america" :> "ja:latin america")
            @@ ("central & south america" :> "ja:latin america")
            @@ ("central and south america" :> "ja:latin america")
            @@ ("middle east" :> "ja:middle east")
    IN  IF Nullish(raw) THEN ""
        ELSE IF (yesNoName \/ questionName) /\ lower \in YES_WORDS THEN Hai
        ELSE IF (yesNoName \/ questionName) /\ lower \in NO_WORDS THEN Iie
        ELSE IF regionName /\ lower \in DOMAIN REGION_MAP_EN2JA
        THEN REGION_MAP_EN2JA[lower]
        ELSE v

(* one turn of the input loop of part_005's fillPdf, for the payload entry
   rawName: rawVal; boxes gives each checkbox of the template its on value
   (a PDF name such as "/Yes", or "" when it has none) and whether it is
   checked *)
InputStep005(boxes, rawName, rawVal) ==
    LET name == rawName
        value == normalizeForField(name, rawVal)
        vLower == toLowerCase(trim(value))
        truthyWord(s) == toLowerCase(trim(s)) \in YES_WORDS
        falsyWord(s) == toLowerCase(trim(s)) \in NO_WORDS
        getCheckBoxOnValueSafe(b) ==
            IF StartsWith(boxes[b].on, "/")
            THEN SubSeq(boxes[b].on, 2, Len(boxes[b].on))
            ELSE boxes[b].on
        (* splitYesNoPair *)
        isYes == EndsWith(toLowerCase(name), "_yes")
        pair == isYes \/ EndsWith(toLowerCase(name), "_no")
        base == SubSeq(name, 1, Len(name) - (IF isYes THEN 4 ELSE 3))
        yesName == base \o "_yes"
        noName == base \o "_no"
        Set(bs, b, c) == IF b \in DOMAIN bs THEN [bs EXCEPT ![b].checked = c]
                         ELSE bs
        matches(b) == getCheckBoxOnValueSafe(b) # ""
                      /\ vLower = toLowerCase(getCheckBoxOnValueSafe(b))
    IN  IF name \notin DOMAIN boxes
        THEN IF pair
             THEN LET wantYes == truthyWord(vLower) \/ vLower = Hai
                      wantNo == falsyWord(vLower) \/ vLower = Iie
                      afterYes ==
                          IF yesName \in DOMAIN boxes
                          THEN Set(boxes, yesName, wantYes \/ matches(yesName))
                          ELSE boxes
                  IN  IF noName \in DOMAIN boxes
                      THEN Set(afterYes, noName, wantNo \/ matches(noName))
                      ELSE afterYes
             ELSE boxes
        ELSE LET onVal == getCheckBoxOnValueSafe(name)
                 shouldCheck ==
                     IF onVal # ""
                     THEN \/ vLower = toLowerCase(onVal)
                          \/ /\ truthyWord(vLower)
                             /\ toLowerCase(onVal) \in {"yes", "on", "true", "1"}
                          \/ /\ falsyWord(vLower)
                             /\ toLowerCase(onVal) \in {"no", "off", "false", "0"}
                     ELSE truthyWord(vLower) \/ vLower = Hai
                 self == Set(boxes, name, shouldCheck)
                 otherName == IF isYes THEN noName ELSE yesName
             IN  IF ~(pair /\ otherName \in DOMAIN boxes) THEN self
                 ELSE IF shouldCheck THEN Set(self, otherName, FALSE)
                 ELSE IF \/ /\ isYes
                            /\ \/ falsyWord(vLower) \/ vLower = Iie
                               \/ matches(otherName)
                         \/ /\ ~isYes
                            /\ \/ truthyWord(vLower) \/ vLower = Hai
                               \/ matches(otherName)
                 THEN Set(self, otherName, TRUE)
                 ELSE self

(* the input loop: the entries of the payload in their order *)
RECURSIVE InputLoop005(_, _)
InputLoop005(boxes, entries) ==
    IF entries = <<>> THEN boxes
    ELSE InputLoop005(InputStep005(boxes, Head(entries).key, Head(entries).val),
                      Tail(entries))

(* the templates part_005 fills: two single boxes with one on value, and a
   yes/no pair *)
Templates005 ==
    {[b \in {"Agree", "Q1_Notify", "Smoker_yes", "Smoker_no"} |->
        [on |-> CASE b \in {"Agree", "Q1_Notify"} -> single
                  [] b = "Smoker_yes" -> p[1]
                  [] b = "Smoker_no" -> p[2],
         checked |-> c]] :
        single \in {"/Yes", "/On", "/true", "/1", "/No", "/Off", "/false",
                    "/0", ""},
        p \in {<<"/Yes", "/No">>, <<"/Yes", "/Yes">>, <<"", "">>,
               <<"/Checked", "/Checked">>},
        c \in BOOLEAN}

(* the payloads: one entry for any key, or two entries that name boxes of
   the pair *)
Payloads005 ==
    LET values == {JsStr("yes"), JsStr(" TRUE"), JsStr("off"), JsStr("0"),
                   JsStr("checked"), JsStr(Hai), JsStr(""), JsBool(TRUE)}
        pairValues == {JsStr("yes"), JsStr("off"), JsStr("checked"), JsStr("")}
        pairKeys == {"Smoker_yes", "Smoker_no", "Smoker_YES"}
    IN  {<<Entry(k, v)>> :
            k \in pairKeys \cup {"Agree", "Q1_Notify", "Smoker"}, v \in values}
        \cup {<<Entry(k[1], v), Entry(k[2], w)>> :
                k \in {x \in pairKeys \X pairKeys : x[1] # x[2]},
                v \in pairValues, w \in pairValues}

(* the calls of part_005's fillPdf: the on value of the single boxes
   varies under the payloads that name no box of the pair, the on values
   of the pair under the payloads that do *)
Inputs005 ==
    {[impl |-> "part_005", stage |-> "input", payload |-> x[1], boxes |-> x[2]] :
        x \in {y \in Payloads005 \X Templates005 :
                  IF StartsWith(y[1][1].key, "Smoker_")
                  THEN y[2]["Agree"].on = "/Yes"
                  ELSE y[2]["Smoker_yes"].on = "/Yes"
                       /\ y[2]["Smoker_no"].on = "/No"}}

(* fillPdf of part_005, its checkboxes *)
Fill005 ==
    /\ form.impl = "part_005"
    /\ form.stage = "input"
    /\ form' = [form EXCEPT !.stage = "filled",
                            !.boxes = InputLoop005(form.boxes, form.payload)]
    /\ UNCHANGED <<variant, env, now, pc, fillpc, body, hdr, loc, resp, fs,
                   drive, lastFont>>

(* C18: after fillPdf, for every base name the payload answers with a yes
   or a no, the boxes Base_yes and Base_no are not both checked. The
   answer stands under the base key or its alias (part_000), under the
   base key (the server of RefreshAppearances.java), or under the name of
   one box of the pair (part_005) *)
C18_PairNeverBothChecked ==
    form.stage = "filled" =>
        /\ form.impl = "part_000" =>
              \A pair \in {<<"TreatmentNow", "TreatmentNow_yes", "TreatmentNow_no">>,
                           <<"Smoker", "Smoker_YES", "Smoker_No">>} :
                  normalizeYesNo(Get(buildAliasView(form.payload), pair[1]))
                        \in {"yes", "no"}
                  => ~(form.checked[pair[2]] /\ form.checked[pair[3]])
        /\ form.impl = "refresh_js" =>
              \A base \in {"Smoker", "Q1_Smoker"} :
                  (\E i \in 1..Len(form.payload) :
                      /\ form.payload[i].key = base
                      /\ yn(norm(form.payload[i].val)) \in {"yes", "no"})
                  => ~(form.checked[base \o "_yes"] /\ form.checked[base \o "_no"])
        /\ form.impl = "part_005" =>
              ((\E i \in 1..Len(form.payload) :
                  /\ toLowerCase(form.payload[i].key) \in {"smoker_yes", "smoker_no"}
                  /\ toLowerCase(trim(String(form.payload[i].val)))
                        \in YES_WORDS \cup NO_WORDS \cup {Hai, Iie})
               => ~(form.boxes["Smoker_yes"].checked
                    /\ form.boxes["Smoker_no"].checked))

(* ----------------- value resolution, called by itself ----------------- *)

(* the calls of resolveValue: the implementation, the name of the PDF
   field, and a payload that may answer under the name, under an alias and
   under the name's variants *)
InputsResolve ==
    {[impl |-> "resolve", stage |-> "input", of |-> i, name |-> n,
      value |-> Undefined,
      payload |->
         [k \in {key \in {"TreatmentNow", "Q1_TreatmentNow", "FullName",
                           "FullNameKanji", "FullNameKana", "Birth_Date"} :
                    (CASE key = "TreatmentNow" -> a
                       [] key = "Q1_TreatmentNow" -> q
                       [] key = "FullName" -> f
                       [] key = "FullNameKanji" -> kj
                       [] key = "FullNameKana" -> kn
                       [] key = "Birth_Date" -> d).type # "undefined"} |->
            CASE k = "TreatmentNow" -> a
              [] k = "Q1_TreatmentNow" -> q
              [] k = "FullName" -> f
              [] k = "FullNameKanji" -> kj
              [] k = "FullNameKana" -> kn
              [] k = "Birth_Date" -> d]] :
        i \in {"index_cjs", "part_000"},
        n \in {"TreatmentNow", "Q1_TreatmentNow", "Treatment Now", "FullName",
               "Birth-Date"},
        a \in {Undefined, JsNull, JsStr(""), JsStr("yes")},
        q \in {Undefined, JsStr(""), JsStr("no")},
        f \in {Undefined, JsStr("")},
        kj \in {Undefined, JsStr("Yamada")},
        kn \in {Undefined, JsStr("yamada")},
        d \in {Undefined, JsStr("1990")}}

(* index.cjs: resolveValue(name, fields, buildAliasView(fields)) *)
ResolveCjs ==
    /\ form.impl = "resolve" /\ form.of = "index_cjs" /\ form.stage = "input"
    /\ form' = [form EXCEPT
                  !.stage = "resolved",
                  !.value = resolveValueCjs(form.name, form.payload,
                                            buildAliasView(form.payload))]
    /\ UNCHANGED <<variant, env, now, pc, fillpc, body, hdr, loc, resp, fs,
                   drive, lastFont>>

(* part_000: resolveValue(name, fields, buildAliasView(fields)) *)
Resolve000 ==
    /\ form.impl = "resolve" /\ form.of = "part_000" /\ form.stage = "input"
    /\ form' = [form EXCEPT
                  !.stage = "resolved",
                  !.value = resolveValue(form.name, form.payload,
                                         buildAliasView(form.payload))]
    /\ UNCHANGED <<variant, env, now, pc, fillpc, body, hdr, loc, resp, fs,
                   drive, lastFont>>

(* C19: the value resolved for a field name is the payload's value under
   that exact name when it is there and not empty; otherwise the value of
   the name's alias, which counts only while the payload gives the base
   key no value at all; otherwise, in part_000, the first of the name's
   variants that has such a value; otherwise ''. The alias
   Q1_TreatmentNow never replaces what the payload gives under
   TreatmentNow *)
C19_ResolvedByPriority ==
    (form.impl = "resolve" /\ form.stage = "resolved") =>
        LET p == form.payload
            None == [type |-> "none", str |-> ""]
            Lookup(k) ==
                IF Present(Get(p, k)) THEN Get(p, k)
                ELSE IF /\ k = "TreatmentNow"
                        /\ Nullish(Get(p, k))
                        /\ Present(Get(p, "Q1_TreatmentNow"))
                THEN Get(p, "Q1_TreatmentNow")
                ELSE None
            candidates ==
                IF form.of = "index_cjs" THEN <<>>
                ELSE CASE form.name = "Treatment Now" ->
                            <<"TreatmentNow", "Treatment_Now", "Treatment-Now">>
                       [] form.name = "FullName" ->
                            <<"FullNameKanji", "FullNameKana">>
                       [] form.name = "Birth-Date" -> <<"Birth_Date">>
                       [] form.name = "Q1_TreatmentNow" -> <<"Q1-TreatmentNow">>
                       [] OTHER -> <<>>
            tried == <<form.name>> \o candidates
            found == {i \in 1..Len(tried) : Lookup(tried[i]) # None}
            expected ==
                IF found = {} THEN JsStr("")
                ELSE Lookup(tried[CHOOSE i \in found : \A j \in found : i <= j])
        IN  /\ form.value = expected
            /\ (form.name = "TreatmentNow" /\ ~Nullish(Get(p, "TreatmentNow")))
                  => form.value \in {Get(p, "TreatmentNow"), JsStr("")}

(* the payload gives TreatmentNow no value and Q1_TreatmentNow the value
   no: the alias value is resolved for the field TreatmentNow, and a
   variant of the name reaches it too *)
C19_Witness ==
    /\ form.impl = "resolve" /\ form.stage = "resolved" /\ form.of = "part_000"
    /\ form.name = "Treatment Now"
    /\ Get(form.payload, "TreatmentNow") = JsNull
    /\ form.value = JsStr("no")

(* C20: in part_005 a payload entry that names a checkbox and carries a
   truthy word (true, 1, on, yes) leaves the box checked when its export
   value is yes, on, true or 1, and one that carries a falsy word (false,
   0, off, no) leaves it checked when its export value is no, off, false
   or 0, whatever the name of the box. The payload has that one entry *)
C20_WordChecksMatchingBox ==
    (form.impl = "part_005" /\ form.stage = "filled" /\ Len(form.payload) = 1) =>
        LET name == form.payload[1].key
            word == toLowerCase(trim(String(form.payload[1].val)))
            on == IF name \in DOMAIN form.boxes
                  THEN toLowerCase(form.boxes[name].on) ELSE ""
        IN  (/\ name \in DOMAIN form.boxes
             /\ form.payload[1].val.type = "string"
             /\ \/ word \in YES_WORDS /\ on \in {"/yes", "/on", "/true", "/1"}
                \/ word \in NO_WORDS /\ on \in {"/no", "/off", "/false", "/0"})
            => form.boxes[name].checked

(* C21: after part_000's fillPdf a DestinationRegion_<label> box is
   checked exactly when its label is the Japanese name of the payload's
   destination region, so at most one of them is checked. The region is
   what the payload gives under DestinationRegion, or under
   Q5_DestinationRegion when it gives DestinationRegion no value; English
   names are mapped whatever their case and spacing *)
C21_OneRegionBoxChecked ==
    (form.impl = "part_000" /\ form.stage = "filled") =>
        LET p == form.payload
            prefix == "DestinationRegion_"
            boxes == {b \in DOMAIN form.checked : StartsWith(b, prefix)}
            label(b) == SubSeq(b, Len(prefix) + 1, Len(b))
            raw == IF ~Nullish(Get(p, "DestinationRegion"))
                   THEN Get(p, "DestinationRegion")
                   ELSE Get(p, "Q5_DestinationRegion")
            region ==
                IF raw.type # "string" THEN "none"
                ELSE CASE raw.str \in {"Asia", "asia", "ja:asia"} -> "ja:asia"
                       [] raw.str \in {" north  america ", "North America"} ->
                            "ja:north america"
                       [] raw.str \in {"South America", "LATIN AMERICA"} ->
                            "ja:latin america"
                       [] OTHER -> "none"
        IN  /\ \A b \in boxes : form.checked[b] <=> (label(b) = region)
            /\ \A b, c \in boxes : (form.checked[b] /\ form.checked[c]) => b = c

(* the payload names North America under the alias only, every box of the
   template started checked, and the one box left checked is North
   America's *)
C21_Witness ==
    /\ form.impl = "part_000" /\ form.stage = "filled"
    /\ DOMAIN form.payload = {"Q5_DestinationRegion"}
    /\ form.payload["Q5_DestinationRegion"] = JsStr("North America")
    /\ form.checked["DestinationRegion_ja:north america"]
    /\ ~form.checked["DestinationRegion_ja:asia"]
    /\ ~form.checked["DestinationRegion_ja:latin america"]

(* ---------------- part_002: mapYesNo, setCheckBoxByAnswer ------------- *)

(* norm of part_002: String(s || ''), trimmed, in lower case, without
   blanks *)
norm002(s) == ReplaceAll(toLowerCase(trim(StringOrEmpty(s))), {" "}, "", FALSE)

(* mapYesNo. The Japanese words are written in ASCII, one token for each
   word of the source: hai, iie, ka, yuu, ari, suru, mu, nashi, shinai; the
   word fuka is the character fu followed by the character ka, as in the
   source *)
mapYesNo(v) ==
    LET n == norm002(v)
        yes == {Hai, "yes", "true", "1", "on", "ja:ka", "ja:yuu", "ja:ari",
                "ja:suru"}
        no == {Iie, "no", "false", "0", "off", "ja:fu" \o "ja:ka", "ja:mu",
               "ja:nashi", "ja:shinai"}
    IN  IF \E k \in yes : Contains(n, k) THEN JsStr(Hai)
        ELSE IF \E k \in no : Contains(n, k) THEN JsStr(Iie)
        ELSE v

(* setCheckBoxByAnswer: whether the box, whose on value reads onName ("" when
   it has none), is checked afterwards *)
setCheckBoxByAnswer(onName, answer) ==
    LET mapped == mapYesNo(answer) IN
    IF onName # "" /\ onName = Hai THEN mapped = JsStr(Hai)
    ELSE IF onName # "" /\ onName = Iie THEN mapped = JsStr(Iie)
    ELSE norm002(answer) \in {Hai, "yes", "true", "1", "on"}

(* the calls of setCheckBoxByAnswer: the answer is a listed word or another
   value, and the on value reads as a bare word or as a PDF name *)
Inputs002 ==
    {[impl |-> "part_002", stage |-> "input", answer |-> a, onName |-> o,
      yn |-> Undefined, checked |-> c] :
        a \in {JsStr(w) : w \in {Hai, "yes", "true", "1", "on", "ja:ka", "ja:yuu",
                                 "ja:ari", "ja:suru", Iie, "no", "false", "0",
                                 "off", "ja:fu" \o "ja:ka", "ja:mu", "ja:nashi",
                                 "ja:shinai", " Yes ", "NO", "maybe", ""}}
              \cup {JsBool(TRUE), JsBool(FALSE), Undefined},
        o \in {"", Hai, Iie, "/" \o Hai, "/" \o Iie, "/Yes"},
        c \in BOOLEAN}

SetCheckBox002 ==
    /\ form.impl = "part_002" /\ form.stage = "input"
    /\ form' = [form EXCEPT
                  !.stage = "filled",
                  !.yn = mapYesNo(form.answer),
                  !.checked = setCheckBoxByAnswer(form.onName, form.answer)]
    /\ UNCHANGED <<variant, env, now, pc, fillpc, body, hdr, loc, resp, fs,
                   drive, lastFont>>

(* C22: mapYesNo maps every listed affirmative word to the Japanese yes and
   every listed negative word to the Japanese no *)
C22_ListedWordsMapped ==
    (form.impl = "part_002" /\ form.stage = "filled"
        /\ form.answer.type = "string") =>
        /\ form.answer.str \in {Hai, "yes", "true", "1", "on", "ja:ka", "ja:yuu",
                                "ja:ari", "ja:suru"}
              => form.yn = JsStr(Hai)
        /\ form.answer.str \in {Iie, "no", "false", "0", "off", "ja:fu" \o "ja:ka",
                                "ja:mu", "ja:nashi", "ja:shinai"}
              => form.yn = JsStr(Iie)

(* ------------- index.js (pdf-lib): the font and its document ---------- *)

(* a PDFDocument object as PDFDocument.load returns it: the statement that
   made it, the fonts embedded in it, the font its text fields were given
   and whether its bytes were saved *)
NewDoc(site) == [site |-> site, fonts |-> {}, applied |-> {}, saved |-> FALSE]

(* one POST /fill of index.js from the download on: whether the template
   has text fields, how many of them the payload gives a value, and whether
   the font file is on disk. docs are the PDFDocument objects made so far,
   and customFont is null or names the object the font was embedded in *)
InputsFont ==
    {[impl |-> "index_js_font", stage |-> "input", hasTextFields |-> t,
      textValues |-> n, fontOnDisk |-> d, docs |-> <<>>, customFont |-> 0] :
        t \in BOOLEAN, n \in 0..2, d \in BOOLEAN}

(* the handler: `const pdfDoc = await PDFDocument.load(templateBytes)` *)
HandlerLoad ==
    /\ form.impl = "index_js_font" /\ form.stage = "input"
    /\ form' = [form EXCEPT
                  !.docs = Append(@, NewDoc("handler")),
                  !.stage = IF form.hasTextFields THEN "font" ELSE "fill"]
    /\ UNCHANGED <<variant, env, now, pc, fillpc, body, hdr, loc, resp, fs,
                   drive, lastFont>>

(* loadJapaneseFont(pdfDoc): the font is embedded in the document it is
   handed, or the file is not found and the handler answers 500 *)
loadJapaneseFont ==
    /\ form.impl = "index_js_font" /\ form.stage = "font"
    /\ LET pdfDoc == Len(form.docs) IN
       form' = IF form.fontOnDisk
               THEN [form EXCEPT !.docs[pdfDoc].fonts = @ \cup {"customFont"},
                                 !.customFont = pdfDoc,
                                 !.stage = "fill"]
               ELSE [form EXCEPT !.stage = "failed"]
    /\ UNCHANGED <<variant, env, now, pc, fillpc, body, hdr, loc, resp, fs,
                   drive, lastFont>>

(* fillPdf(templatePath, outputPath, fields, customFont) up to its save:
   `const pdfDoc = await PDFDocument.load(bytes)`, then every text field
   with a value is given customFont, when there is one *)
FillPdfLoad ==
    /\ form.impl = "index_js_font" /\ form.stage = "fill"
    /\ LET docs == Append(form.docs, NewDoc("fillPdf"))
           pdfDoc == Len(docs)
       IN  form' = [form EXCEPT
                      !.docs = [docs EXCEPT ![pdfDoc].applied =
                                  IF /\ form.hasTextFields
                                     /\ form.textValues > 0
                                     /\ form.customFont # 0
                                  THEN {form.customFont} ELSE {}],
                      !.stage = "save"]
    /\ UNCHANGED <<variant, env, now, pc, fillpc, body, hdr, loc, resp, fs,
                   drive, lastFont>>

(* fillPdf: `await pdfDoc.save(...)` and the write of its bytes *)
FillPdfSave ==
    /\ form.impl = "index_js_font" /\ form.stage = "save"
    /\ form' = [form EXCEPT !.docs[Len(form.docs)].saved = TRUE,
                            !.stage = "saved"]
    /\ UNCHANGED <<variant, env, now, pc, fillpc, body, hdr, loc, resp, fs,
                   drive, lastFont>>

(* C23: the custom font handed to fillPdf and given to its text fields is
   embedded in the document object that fillPdf fills and saves *)
C23_FontInFilledDocument ==
    (form.impl = "index_js_font" /\ form.stage = "saved") =>
        \A d \in 1..Len(form.docs) :
            form.docs[d].saved =>
                /\ form.customFont # 0 => form.customFont = d
                /\ \A f \in form.docs[d].applied :
                      "customFont" \in form.docs[d].fonts

(* ------------------ part_003: the counts of the field loop ------------ *)

(* setFieldValue for one payload entry: whether the field's value was set
   and whether the call threw. e.kind is the type of the field, e.set says
   whether pdf-lib accepts the value (setText, or select in one of the three
   spellings), e.appearance whether updateAppearances succeeds. Every
   exception ends in the catch of setFieldValue, which only warns *)
setFieldValue(e) ==
    [set |-> CASE e.kind = "PDFCheckBox" -> TRUE
               [] e.kind = "PDFRadioGroup" -> e.set = "ok"
               [] e.kind = "PDFTextField" -> e.set = "ok"
               [] OTHER -> FALSE,
     threw |-> FALSE]

(* the loop over Object.entries(fields): the counters after the entries;
   a name the form does not have is skipped *)
RECURSIVE FieldLoop003(_, _)
FieldLoop003(counts, entries) ==
    IF entries = <<>> THEN counts
    ELSE LET e == Head(entries)
             r == setFieldValue(e)
         IN  FieldLoop003(
                 IF e.kind = "none" THEN counts
                 ELSE IF r.threw
                 THEN [counts EXCEPT !.fieldsProcessed = @ + 1,
                                     !.fieldsErrors = @ + 1]
                 ELSE [counts EXCEPT !.fieldsProcessed = @ + 1,
                                     !.fieldsUpdated = @ + 1,
                                     !.valuesSet = @ + (IF r.set THEN 1 ELSE 0)],
                 Tail(entries))

(* the calls of the loop: one or two payload entries, each for no field of
   the form or for a field of one of the four types *)
InputsCount003 ==
    LET entry == [kind : {"none", "PDFCheckBox", "PDFRadioGroup", "PDFTextField",
                          "PDFDropdown"},
                  set : {"ok", "throws"}, appearance : {"ok", "throws"}]
    IN  {[impl |-> "part_003_count", stage |-> "input", payload |-> p,
          filledCount |-> 0,
          counts |-> [fieldsProcessed |-> 0, fieldsUpdated |-> 0,
                      fieldsErrors |-> 0, valuesSet |-> 0]] :
            p \in {<<e>> : e \in entry}
                  \cup {<<e, f>> : e \in entry,
                                   f \in {g \in entry : g.appearance = "ok"}}}

(* the field loop of POST /fill and the filledCount of its response *)
Count003 ==
    /\ form.impl = "part_003_count" /\ form.stage = "input"
    /\ LET counts == FieldLoop003(form.counts, form.payload) IN
       form' = [form EXCEPT !.stage = "answered", !.counts = counts,
                            !.filledCount = counts.fieldsUpdated]
    /\ UNCHANGED <<variant, env, now, pc, fillpc, body, hdr, loc, resp, fs,
                   drive, lastFont>>

(* C24: filledCount is the number of payload fields whose value was set in
   the PDF, and a field whose update failed is counted as an error *)
C24_FilledCountIsUpdated ==
    (form.impl = "part_003_count" /\ form.stage = "answered") =>
        /\ form.filledCount = form.counts.valuesSet
        /\ form.counts.fieldsErrors
              = form.counts.fieldsProcessed - form.counts.valuesSet

(* ----------------------- the fill calls together --------------------- *)

FormInputs == Inputs003 \cup InputsFields \cup InputsRefresh \cup InputsCjs \cup Inputs000 \cup Inputs005 \cup InputsResolve \cup Inputs002 \cup InputsFont \cup InputsCount003

(* a process that serves no request: one fill call is followed *)
FormInit ==
    /\ form \in FormInputs
    /\ variant = "none" /\ env = <<>> /\ now = 0
    /\ pc = <<>> /\ fillpc = <<>> /\ body = <<>> /\ hdr = <<>> /\ loc = <<>>
    /\ resp = <<>> /\ fs = <<>> /\ drive = {} /\ lastFont = "undefined"

FormNext ==
    \/ Fill003
    \/ FieldsReceive
    \/ FieldsDownloaded
    \/ FieldsAnswer
    \/ FillRefresh
    \/ FillCjs
    \/ Fill000
    \/ Fill005
    \/ ResolveCjs
    \/ Resolve000
    \/ SetCheckBox002
    \/ HandlerLoad
    \/ loadJapaneseFont
    \/ FillPdfLoad
    \/ FillPdfSave
    \/ Count003

FormSpec == FormInit /\ [][FormNext]_vars

====
